---- MODULE Spec2Model ----
(***************************************************************************)
(* Model of kaniko's stage builder (pkg/executor/build.go): the build of   *)
(* one Dockerfile stage, its layer cache lookups and pushes, and the       *)
(* decision when to snapshot the filesystem.                               *)
(***************************************************************************)
EXTENDS Integers, Sequences, FiniteSets, TLC

(***************************************************************************)
(* Bounds of the model.                                                    *)
(***************************************************************************)
\* longest instruction list of a stage
MaxCmds == 3

\* longest instruction list of a stage that is built twice
MaxRebuildCmds == 2

\* largest number of stages of a Dockerfile
MaxStages == 2

\* longest instruction list of the stage of a one-stage Dockerfile
MaxStageCmds == 2

\* the number of RUN, CMD and ENTRYPOINT instructions executed in a row
MaxArgvCmds == 2

\* the number of sources of an ADD instruction
MaxAddSrcs == 2

\* the number of goroutines that call Manifest() on one image, and the number
\* of calls each of them makes
MaxThreads == 2
MaxManifestCalls == 2

\* const emptyTarSize = 1024
emptyTarSize == 1024

(***************************************************************************)
(* Values.                                                                 *)
(***************************************************************************)
\* a Go nil []string, as opposed to an empty, non-nil list
NilFiles == [isNil |-> TRUE, items |-> <<>>]

Files(items) == [isNil |-> FALSE, items |-> items]

\* no layer (no v1.Layer value)
NoLayer == [by |-> "", gen |-> 0, files |-> <<>>]

\* a layer some other build stored in the registry cache
ForeignLayer == [by |-> "other build", gen |-> 0, files |-> <<"/cached">>]

\* instructions.Command values of the parsed Dockerfile: name is Name(),
\* str is String()
Instructions ==
    { [name |-> "run",        str |-> "RUN a"],
      [name |-> "copy",       str |-> "COPY f /d"],
      [name |-> "env",        str |-> "ENV k=v"],
      [name |-> "maintainer", str |-> "MAINTAINER m"],
      [name |-> "unknown",    str |-> "BOGUS x"] }

\* opts.BuildArgs as given on the command line
BuildArgsChoices == { <<"K=v">> }

\* the digest of the base image of the stage
BaseDigests == { "sha256:base" }

\* all sequences over S of length 0..n
SeqsUpTo(S, n) == UNION { [1..k -> S] : k \in 0..n }

\* a v1.Config: a nil []string is <<>>, except OnBuild, where nil and the
\* empty list are kept apart
Config(env, cmd, entrypoint, onbuild) ==
    [Env |-> env, Cmd |-> cmd, Entrypoint |-> entrypoint, OnBuild |-> onbuild]

\* a file below /: dir is the directory the whitelist is matched against,
\* stage the index of the stage during which it was put there, origin is
\* "extracted" (from a base image) or "written" (by an instruction or by
\* DoBuild)
File(dir, name, stageNo, origin) ==
    [dir |-> dir, name |-> name, stage |-> stageNo, origin |-> origin]

\* the base image of a single-stage build: a remote image without triggers
alpine ==
    [name |-> "alpine", digest |-> "sha256:base", files |-> <<"/bin/sh">>,
     config |-> Config(<<"PATH=/bin">>, <<"sh">>, <<>>, NilFiles)]

\* a nil commands.DockerCommand
NilCommand == [isNil |-> TRUE, kind |-> "", str |-> "", img |-> NoLayer]

VARIABLES
    stage,            \* stageBuilder.stage: [Commands, Final]
    opts,             \* stageBuilder.opts: [Cache, SingleSnapshot, BuildArgs]
    baseImageDigest,  \* stageBuilder.baseImageDigest
    image,            \* stageBuilder.image: [Layers, History] appended by the build
    registry,         \* the remote layer cache: set of [key, layer]
    pc,               \* position of build(): start, commands, optimize, execute, done, failed
    cmds,             \* local cmds of build()
    compositeKey,     \* local compositeKey of build()
    index,            \* loop index of the current loop of build()
    retrieved,        \* calls of layerCache.RetrieveLayer: [index, key, hit]
    pushed,           \* calls of pushLayerToCache: [index, key, layer, ok]
    log,              \* one record per instruction that ExecuteCommand was called on
    buildNo,          \* 1 for the first build, 2 for the rebuild
    prior,            \* log of the first build, kept for the rebuild
    cf,               \* stageBuilder.cf.Config
    fs,               \* the files below constants.RootDir
    sourceImage,      \* the base image newStageBuilder retrieved
    stages,           \* DoBuild: the stages dockerfile.Stages returned
    stageIdx,         \* DoBuild: the loop index
    dpc,              \* DoBuild: position (single, stage, building, built, returned)
    tarballs,         \* DoBuild: the images saved under KanikoIntermediateStagesDir
    result,           \* DoBuild: what it returned
    input,            \* the arguments of a function that is called on its own
    output            \* what the function returned

doBuildVars == << stages, stageIdx, dpc, tarballs, result >>

\* the variables of the calls of single functions
callVars == << input, output >>

\* the variables of build() and DoBuild
buildVars == << stage, opts, baseImageDigest, image, registry, pc, cmds,
                compositeKey, index, retrieved, pushed, log, buildNo, prior,
                cf, fs, sourceImage, stages, stageIdx, dpc, tarballs, result >>

vars == << stage, opts, baseImageDigest, image, registry, pc, cmds,
           compositeKey, index, retrieved, pushed, log, buildNo, prior,
           cf, fs, sourceImage, stages, stageIdx, dpc, tarballs, result,
           input, output >>

(***************************************************************************)
(* Composite cache key.                                                    *)
(***************************************************************************)
\* NewCompositeCache(initial ...string)
NewCompositeCache(initial) == initial

\* CompositeCache.AddKey(k ...string)
AddKey(ck, k) == ck \o k

\* the hash of the context file or directory at path p
PathHash(p) == "hash of " \o p

\* CompositeCache.AddPath(p string)
AddPath(ck, p) == Append(ck, PathHash(p))

\* CompositeCache.Hash(): a collision-free digest of the ordered contributions
Hash(ck) == [sha256 |-> ck]

(***************************************************************************)
(* Commands.                                                               *)
(***************************************************************************)
\* commands.GetCommand(cmd, buildcontext)
GetCommand(cmd) ==
    CASE cmd.name \in {"run", "copy", "env", "cmd", "entrypoint"} ->
            [err |-> FALSE,
             command |-> [isNil |-> FALSE, kind |-> cmd.name, str |-> cmd.str, img |-> NoLayer]]
      [] cmd.name = "maintainer" -> [err |-> FALSE, command |-> NilCommand]
      [] OTHER -> [err |-> TRUE, command |-> NilCommand]

\* no stage
NoStage == 0 - 1

\* the stage a COPY instruction copies from (its From field)
From(cmd) == IF cmd.str = "COPY --from=0 /out /d" THEN 0 ELSE NoStage

\* DockerCommand.CacheCommand(img): only RUN has a cached implementation
CacheCommand(command, img) ==
    IF command.kind = "run"
    THEN [isNil |-> FALSE, kind |-> "cached", str |-> command.str, img |-> img]
    ELSE NilCommand

\* DockerCommand.String()
String(command) == command.str

\* DockerCommand.FilesUsedFromContext(config, args)
FilesUsedFromContext(command) ==
    IF command.kind = "copy" /\ From(command) = NoStage THEN <<"f">> ELSE <<>>

\* DockerCommand.FilesToSnapshot()
FilesToSnapshot(command) ==
    CASE command.kind = "run"    -> NilFiles
      [] command.kind = "copy"   -> Files(<<"/d">>)
      [] command.kind = "cached" -> Files(command.img.files)
      [] OTHER                   -> Files(<<>>)

\* the arguments of the CMD and ENTRYPOINT instructions of the model
CmdLine(command) ==
    CASE command.kind = "cmd"        -> <<"x">>
      [] command.kind = "entrypoint" -> <<"y">>
      [] OTHER                       -> <<>>

\* CmdCommand.ExecuteCommand(config, buildArgs)
CmdCommand_ExecuteCommand(command, config) ==
    [config EXCEPT !.Cmd = CmdLine(command)]

\* EntrypointCommand.ExecuteCommand with the bug that it also clears Cmd
EntrypointCommand_ExecuteCommand_clearsCmd(command, config) ==
    [config EXCEPT !.Entrypoint = CmdLine(command), !.Cmd = <<>>]

\* EntrypointCommand.ExecuteCommand(config, buildArgs)
EntrypointCommand_ExecuteCommand(command, config) ==
    [config EXCEPT !.Entrypoint = CmdLine(command)]

\* EnvCommand.ExecuteCommand(config, buildArgs): ENV k=v
EnvCommand_ExecuteCommand(command, config) ==
    IF \E i \in 1..Len(config.Env) : config.Env[i] = "k=v"
    THEN config
    ELSE [config EXCEPT !.Env = Append(config.Env, "k=v")]

\* the files fsv with the file dir/name put there during stage stageNo
WriteFile(fsv, dir, name, stageNo) ==
    { e \in fsv : ~(e.dir = dir /\ e.name = name) } \cup { File(dir, name, stageNo, "written") }

\* RunCommand.ExecuteCommand(config, buildArgs): the process writes /out and
\* a pid file
RunCommand_ExecuteCommand(command, fsv, stageNo) ==
    WriteFile(WriteFile(fsv, "/", "/out", stageNo), "/var/run", "a.pid", stageNo)

\* CopyCommand.ExecuteCommand(config, buildArgs): COPY f /d
CopyCommand_ExecuteCommand(command, fsv, stageNo) ==
    WriteFile(fsv, "/", "/d", stageNo)

\* the ExecuteCommand of a cached RUN: the files of the layer are extracted
RECURSIVE WriteFiles(_, _, _)
WriteFiles(fsv, names, stageNo) ==
    IF names = <<>> THEN fsv
    ELSE WriteFiles(WriteFile(fsv, "/", Head(names), stageNo), Tail(names), stageNo)

\* whether what the command reads is there: COPY --from=k reads the
\* directory that stage k was extracted to
sourcePresent(command, fsv) ==
    command.kind = "copy" /\ From(command) # NoStage =>
        \E e \in fsv : e.dir = "/kaniko" /\ e.name = ToString(From(command))

\* DockerCommand.ExecuteCommand with the bug that ENV and RUN leave no trace
ExecuteCommand_effectLost(command, config, fsv, stageNo) ==
    CASE command.kind = "cmd"        -> [cf |-> CmdCommand_ExecuteCommand(command, config), fs |-> fsv]
      [] command.kind = "entrypoint" -> [cf |-> EntrypointCommand_ExecuteCommand(command, config), fs |-> fsv]
      [] command.kind = "copy"       -> [cf |-> config, fs |-> CopyCommand_ExecuteCommand(command, fsv, stageNo)]
      [] command.kind = "cached"     -> [cf |-> config, fs |-> WriteFiles(fsv, command.img.files, stageNo)]
      [] OTHER                       -> [cf |-> config, fs |-> fsv]

\* DockerCommand.ExecuteCommand(config, buildArgs) as build() calls it: the
\* config and the files below / afterwards
ExecuteCommand(command, config, fsv, stageNo) ==
    CASE command.kind = "cmd"        -> [cf |-> CmdCommand_ExecuteCommand(command, config), fs |-> fsv]
      [] command.kind = "entrypoint" -> [cf |-> EntrypointCommand_ExecuteCommand(command, config), fs |-> fsv]
      [] command.kind = "env"        -> [cf |-> EnvCommand_ExecuteCommand(command, config), fs |-> fsv]
      [] command.kind = "run"        -> [cf |-> config, fs |-> RunCommand_ExecuteCommand(command, fsv, stageNo)]
      [] command.kind = "copy"       -> [cf |-> config, fs |-> CopyCommand_ExecuteCommand(command, fsv, stageNo)]
      [] command.kind = "cached"     -> [cf |-> config, fs |-> WriteFiles(fsv, command.img.files, stageNo)]
      [] OTHER                       -> [cf |-> config, fs |-> fsv]

\* util.GetFSFromImage(root, img): the files of the image are extracted
\* over what is there
RECURSIVE GetFSFromImage(_, _, _)
GetFSFromImage(fsv, names, stageNo) ==
    IF names = <<>> THEN fsv
    ELSE GetFSFromImage(
            { e \in fsv : ~(e.dir = "/" /\ e.name = Head(names)) }
                \cup { File("/", Head(names), stageNo, "extracted") },
            Tail(names), stageNo)

(***************************************************************************)
(* Layer cache.                                                            *)
(***************************************************************************)
\* cache.RegistryCache.RetrieveLayer(ck): an error when no image is stored
\* under ck or when the registry cannot be reached
RetrieveLayer(reg, ck, reachable) ==
    IF reachable /\ \E e \in reg : e.key = ck
    THEN [err |-> FALSE, img |-> (CHOOSE e \in reg : e.key = ck).layer]
    ELSE [err |-> TRUE, img |-> NoLayer]

\* pushLayerToCache(opts, cacheKey, layer, createdBy): stores the layer under
\* cacheKey (the last writer wins) or returns the error of the push
pushLayerToCache(reg, cacheKey, layer, pushOk) ==
    IF pushOk
    THEN [err |-> FALSE,
          registry |-> { e \in reg : e.key # cacheKey } \cup { [key |-> cacheKey, layer |-> layer] }]
    ELSE [err |-> TRUE, registry |-> reg]

(***************************************************************************)
(* stageBuilder.                                                           *)
(***************************************************************************)
\* the initial cache key of build(): base image digest and build args
initialKey(digest, buildArgs) == AddKey(NewCompositeCache(<<digest>>), buildArgs)

RECURSIVE AddPaths(_, _)
\* for _, f := range files { compositeKey.AddPath(f) }
AddPaths(ck, files) ==
    IF files = <<>> THEN ck
    ELSE AddPaths(AddPath(ck, Head(files)), Tail(files))

\* keyAfter with the bug that the context files of the command are left out
keyAfter_withoutContextFiles(ck, command) ==
    AddKey(ck, <<String(command)>>)

\* the key of build() after the command was added to it
keyAfter(ck, command) ==
    AddPaths(AddKey(ck, <<String(command)>>), FilesUsedFromContext(command))

RECURSIVE getCommands(_, _)
\* for _, cmd := range s.stage.Commands { commands.GetCommand ... }
getCommands(commands, acc) ==
    IF commands = <<>> THEN [err |-> FALSE, cmds |-> acc]
    ELSE LET g == GetCommand(Head(commands)) IN
         IF g.err THEN [err |-> TRUE, cmds |-> acc]
         ELSE getCommands(Tail(commands), Append(acc, g.command))

\* the key build() passes to RetrieveLayer for the command at index i
lookupKey(ck, cmdsv, i) == Hash(ck)

\* optimize with the bug that a miss goes on with the next command (continue
\* for break)
optimize_continueAfterMiss(cmdsv, i, r) ==
    IF r.err
    THEN [cmds |-> cmdsv, next |-> i + 1]
    ELSE LET cacheCmd == CacheCommand(cmdsv[i + 1], r.img) IN
         [cmds |-> IF ~cacheCmd.isNil THEN [cmdsv EXCEPT ![i + 1] = cacheCmd] ELSE cmdsv,
          next |-> i + 1]

\* one iteration of the cache loop of build() for a non-nil command: r is the
\* result of RetrieveLayer; next is the index the loop goes on with
optimize(cmdsv, i, r) ==
    IF r.err
    THEN [cmds |-> cmdsv, next |-> Len(cmdsv)]
    ELSE LET cacheCmd == CacheCommand(cmdsv[i + 1], r.img) IN
         [cmds |-> IF ~cacheCmd.isNil THEN [cmdsv EXCEPT ![i + 1] = cacheCmd] ELSE cmdsv,
          next |-> i + 1]

\* shouldTakeSnapshot with the bug that intermediate stages are treated as
\* the final stage
shouldTakeSnapshot_ignoringFinal(s_stage, s_opts, idx, files) ==
    LET isLastCommand == idx = Len(s_stage.Commands) - 1 IN
    IF s_opts.SingleSnapshot THEN isLastCommand
    ELSE IF files.isNil THEN TRUE
    ELSE IF Len(files.items) = 0 THEN FALSE
    ELSE TRUE

\* shouldTakeSnapshot with the bug that an empty list is snapshotted
shouldTakeSnapshot_emptyListToo(s_stage, s_opts, idx, files) ==
    LET isLastCommand == idx = Len(s_stage.Commands) - 1 IN
    IF ~s_stage.Final THEN isLastCommand
    ELSE IF s_opts.SingleSnapshot THEN isLastCommand
    ELSE TRUE

\* stageBuilder.shouldTakeSnapshot(index, files)
shouldTakeSnapshot(s_stage, s_opts, idx, files) ==
    LET isLastCommand == idx = Len(s_stage.Commands) - 1 IN
    IF ~s_stage.Final THEN isLastCommand
    ELSE IF s_opts.SingleSnapshot THEN isLastCommand
    ELSE IF files.isNil THEN TRUE
    ELSE IF Len(files.items) = 0 THEN FALSE
    ELSE TRUE

\* s.cf.Config.Volumes
cfVolumes == <<"/vol">>

\* stageBuilder.takeSnapshot(files): which snapshot is asked of the snapshotter
takeSnapshot(s_opts, files) ==
    IF files.isNil \/ s_opts.SingleSnapshot
    THEN [full |-> TRUE, files |-> <<>>]
    ELSE [full |-> FALSE, files |-> files.items \o cfVolumes]

\* pushesLayer with the bug that the Cache option is not looked at
pushesLayer_always(s_opts, command) == TRUE

\* whether saveSnapshotToImage pushes the layer of the command to the cache
pushesLayer(s_opts, command) == s_opts.Cache

\* saveSnapshotToImage with the bug that the history entry names the cache
\* key instead of the instruction
saveSnapshotToImage_createdByKey(img, s_opts, reg, command, ck, tarPath, size, layer, pushOk) ==
    LET unchanged == [err |-> FALSE, image |-> img, registry |-> reg, push |-> <<>>, appended |-> FALSE] IN
    IF tarPath = "" THEN unchanged
    ELSE IF size <= emptyTarSize THEN unchanged
    ELSE LET p == IF pushesLayer(s_opts, command)
                  THEN pushLayerToCache(reg, ck, layer, pushOk)
                  ELSE [err |-> FALSE, registry |-> reg]
             call == IF pushesLayer(s_opts, command)
                     THEN << [key |-> ck, layer |-> layer, ok |-> ~p.err] >>
                     ELSE <<>>
         IN IF p.err
            THEN [err |-> TRUE, image |-> img, registry |-> reg, push |-> call, appended |-> FALSE]
            ELSE [err |-> FALSE,
                  image |-> [Layers |-> Append(img.Layers, layer),
                             History |-> Append(img.History,
                                   [Author |-> "kaniko", CreatedBy |-> "key", EmptyLayer |-> FALSE])],
                  registry |-> p.registry, push |-> call, appended |-> TRUE]

\* saveSnapshotToImage with the bug that a tar of exactly emptyTarSize bytes
\* counts as a layer (< for <=)
saveSnapshotToImage_strictlySmaller(img, s_opts, reg, command, ck, tarPath, size, layer, pushOk) ==
    LET unchanged == [err |-> FALSE, image |-> img, registry |-> reg, push |-> <<>>, appended |-> FALSE] IN
    IF tarPath = "" THEN unchanged
    ELSE IF size < emptyTarSize THEN unchanged
    ELSE LET p == IF pushesLayer(s_opts, command)
                  THEN pushLayerToCache(reg, ck, layer, pushOk)
                  ELSE [err |-> FALSE, registry |-> reg]
             call == IF pushesLayer(s_opts, command)
                     THEN << [key |-> ck, layer |-> layer, ok |-> ~p.err] >>
                     ELSE <<>>
         IN IF p.err
            THEN [err |-> TRUE, image |-> img, registry |-> reg, push |-> call, appended |-> FALSE]
            ELSE [err |-> FALSE,
                  image |-> [Layers |-> Append(img.Layers, layer),
                             History |-> Append(img.History,
                                   [Author |-> "kaniko", CreatedBy |-> String(command), EmptyLayer |-> FALSE])],
                  registry |-> p.registry, push |-> call, appended |-> TRUE]

\* stageBuilder.saveSnapshotToImage(createdBy, ck, tarPath)
saveSnapshotToImage(img, s_opts, reg, command, ck, tarPath, size, layer, pushOk) ==
    LET unchanged == [err |-> FALSE, image |-> img, registry |-> reg, push |-> <<>>, appended |-> FALSE] IN
    IF tarPath = "" THEN unchanged
    ELSE IF size <= emptyTarSize THEN unchanged
    ELSE LET p == IF pushesLayer(s_opts, command)
                  THEN pushLayerToCache(reg, ck, layer, pushOk)
                  ELSE [err |-> FALSE, registry |-> reg]
             call == IF pushesLayer(s_opts, command)
                     THEN << [key |-> ck, layer |-> layer, ok |-> ~p.err] >>
                     ELSE <<>>
         IN IF p.err
            THEN [err |-> TRUE, image |-> img, registry |-> reg, push |-> call, appended |-> FALSE]
            ELSE [err |-> FALSE,
                  image |-> [Layers |-> Append(img.Layers, layer),
                             History |-> Append(img.History,
                                   [Author |-> "kaniko", CreatedBy |-> String(command), EmptyLayer |-> FALSE])],
                  registry |-> p.registry, push |-> call, appended |-> TRUE]

(***************************************************************************)
(* What the environment decides at one instruction.                        *)
(***************************************************************************)
\* results of the snapshotter: an error, or the tar file and its size
SnapshotResults ==
    { [err |-> TRUE,  tarPath |-> "",          size |-> 0],
      [err |-> FALSE, tarPath |-> "",          size |-> 0],
      [err |-> FALSE, tarPath |-> "/tmp/snap", size |-> emptyTarSize],
      [err |-> FALSE, tarPath |-> "/tmp/snap", size |-> emptyTarSize + 1] }

\* the layer a snapshot after the command holds: a cached command extracts
\* the cached layer; the output of a really executed RUN may differ from one
\* build to the next
layerOf(command, gen) ==
    IF command.kind = "cached" THEN command.img
    ELSE [by |-> String(command), gen |-> gen, files |-> <<"/out">>]

generations(command) ==
    IF command.kind = "run" THEN {0, buildNo - 1} ELSE {0}

\* the composite key after the first n instructions of the stage
RECURSIVE keyOfPrefix(_, _, _, _)
keyOfPrefix(digest, buildArgs, commands, n) ==
    IF n = 0 THEN <<digest>> \o buildArgs
    ELSE LET before == keyOfPrefix(digest, buildArgs, commands, n - 1)
             c == commands[n]
         IN IF c.name = "maintainer" THEN before
            ELSE (before \o <<c.str>>) \o (IF c.name = "copy" THEN <<PathHash("f")>> ELSE <<>>)

\* what the registry cache holds before the build: layers other builds of
\* the same base image stored under the keys of the first instructions
registryChoices(digest, buildArgs, commands) ==
    { { [key |-> Hash(keyOfPrefix(digest, buildArgs, commands, n)), layer |-> ForeignLayer] : n \in P } :
        P \in SUBSET (0..(IF Len(commands) > 0 THEN 1 ELSE 0)) }

emptyImage == [Layers |-> <<>>, History |-> <<>>]

\* a nil v1.Image
NilImage ==
    [isNil |-> TRUE, image |-> emptyImage, base |-> "",
     config |-> Config(<<>>, <<>>, <<>>, NilFiles), Created |-> 0, LayerTimes |-> <<>>]

\* no function is called on its own
NoCall == [fn |-> ""]

\* DoBuild has not returned
NoResult == [returned |-> FALSE, image |-> NilImage, err |-> ""]

(***************************************************************************)
(* Actions.                                                                *)
(***************************************************************************)
Init ==
    /\ stage \in [Commands : SeqsUpTo(Instructions, MaxCmds), Final : BOOLEAN]
    /\ opts \in [Cache : BOOLEAN, SingleSnapshot : BOOLEAN, BuildArgs : BuildArgsChoices,
                 SnapshotMode : {"full"}, Cleanup : {FALSE}, Reproducible : {FALSE}]
    /\ baseImageDigest \in BaseDigests
    /\ registry \in registryChoices(baseImageDigest, opts.BuildArgs, stage.Commands)
    /\ image = emptyImage
    /\ pc = "start"
    /\ cmds = <<>>
    /\ compositeKey = <<>>
    /\ index = 0
    /\ retrieved = <<>>
    /\ pushed = <<>>
    /\ log = <<>>
    /\ buildNo = 1
    /\ prior = <<>>
    /\ sourceImage = alpine
    /\ cf = alpine.config
    /\ fs = {}
    /\ stages = <<>>
    /\ stageIdx = 0
    /\ dpc = "single"
    /\ tarballs = <<>>
    /\ result = NoResult
    /\ input = NoCall
    /\ output = NoCall

\* build(): unpack the base image to /, take the initial snapshot, seed the key
Unpack ==
    /\ pc = "start"
    /\ \E ok \in BOOLEAN :
        IF ok
        THEN /\ compositeKey' = initialKey(baseImageDigest, opts.BuildArgs)
             /\ fs' = GetFSFromImage(fs, sourceImage.files, stageIdx)
             /\ pc' = "commands"
        ELSE /\ pc' = "failed"
             /\ UNCHANGED << compositeKey, fs >>
    /\ UNCHANGED << stage, opts, baseImageDigest, image, registry, cmds, index,
                    retrieved, pushed, log, buildNo, prior, cf, sourceImage >>
    /\ UNCHANGED doBuildVars
    /\ UNCHANGED callVars

\* build(): the loop that turns the instructions of the stage into commands
GetCommands ==
    /\ pc = "commands"
    /\ LET g == getCommands(stage.Commands, <<>>) IN
        /\ cmds' = g.cmds
        /\ pc' = IF g.err THEN "failed" ELSE IF opts.Cache THEN "optimize" ELSE "execute"
    /\ index' = 0
    /\ UNCHANGED << stage, opts, baseImageDigest, image, registry, compositeKey,
                    retrieved, pushed, log, buildNo, prior, cf, fs, sourceImage >>
    /\ UNCHANGED doBuildVars
    /\ UNCHANGED callVars

\* build(): one iteration of the loop that replaces commands by cached ones
Optimize ==
    /\ pc = "optimize"
    /\ index < Len(cmds)
    /\ LET command == cmds[index + 1] IN
        IF command.isNil
        THEN /\ index' = index + 1
             /\ UNCHANGED << cmds, retrieved >>
        ELSE \E reachable \in BOOLEAN :
             LET ck == lookupKey(compositeKey, cmds, index)
                 r == RetrieveLayer(registry, ck, reachable)
                 o == optimize(cmds, index, r)
             IN /\ retrieved' = Append(retrieved, [index |-> index, key |-> ck, hit |-> ~r.err])
                /\ cmds' = o.cmds
                /\ index' = o.next
    /\ UNCHANGED << stage, opts, baseImageDigest, image, registry, pc, compositeKey,
                    pushed, log, buildNo, prior, cf, fs, sourceImage >>
    /\ UNCHANGED doBuildVars
    /\ UNCHANGED callVars

\* build(): the cache loop is over, the execution loop starts
OptimizeDone ==
    /\ pc = "optimize"
    /\ index = Len(cmds)
    /\ pc' = "execute"
    /\ index' = 0
    /\ UNCHANGED << stage, opts, baseImageDigest, image, registry, cmds, compositeKey,
                    retrieved, pushed, log, buildNo, prior, cf, fs, sourceImage >>
    /\ UNCHANGED doBuildVars
    /\ UNCHANGED callVars

\* build(): one iteration of the execution loop
Execute ==
    /\ pc = "execute"
    /\ index < Len(cmds)
    /\ LET command == cmds[index + 1] IN
        IF command.isNil
        THEN /\ index' = index + 1
             /\ UNCHANGED << pc, compositeKey, image, registry, pushed, log, cf, fs >>
        ELSE \E execOk \in { b \in BOOLEAN : b => sourcePresent(command, fs) },
                snap \in SnapshotResults,
                gen \in generations(command), pushOk \in BOOLEAN :
             LET key == keyAfter(compositeKey, command)
                 files == FilesToSnapshot(command)
                 take == execOk /\ shouldTakeSnapshot(stage, opts, index, files)
                 asked == takeSnapshot(opts, files)
                 layer == layerOf(command, gen)
                 ck == Hash(key)
                 saved == saveSnapshotToImage(image, opts, registry, command, ck,
                                              snap.tarPath, snap.size, layer, pushOk)
                 failed == \/ ~execOk
                           \/ take /\ snap.err
                           \/ take /\ ~snap.err /\ saved.err
                 saves == take /\ ~snap.err
                 after == IF execOk THEN ExecuteCommand(command, cf, fs, stageIdx)
                          ELSE [cf |-> cf, fs |-> fs]
                 entry == [index |-> index, str |-> String(command),
                           cf |-> cf, fs |-> fs,
                           cached |-> command.kind = "cached", key |-> ck,
                           executed |-> execOk, files |-> files, take |-> take,
                           full |-> take /\ asked.full,
                           tarPath |-> IF saves THEN snap.tarPath ELSE "",
                           size |-> IF saves THEN snap.size ELSE 0,
                           layer |-> IF saves /\ saved.appended THEN layer ELSE NoLayer]
             IN /\ compositeKey' = key
                /\ cf' = after.cf
                /\ fs' = after.fs
                /\ log' = Append(log, entry)
                /\ image' = IF saves THEN saved.image ELSE image
                /\ registry' = IF saves THEN saved.registry ELSE registry
                /\ pushed' = IF saves
                             THEN pushed \o [j \in 1..Len(saved.push) |->
                                     [index |-> index, key |-> saved.push[j].key,
                                      layer |-> saved.push[j].layer, ok |-> saved.push[j].ok]]
                             ELSE pushed
                /\ pc' = IF failed THEN "failed" ELSE pc
                /\ index' = IF failed THEN index ELSE index + 1
    /\ UNCHANGED << stage, opts, baseImageDigest, cmds, retrieved, buildNo, prior,
                    sourceImage >>
    /\ UNCHANGED doBuildVars
    /\ UNCHANGED callVars

\* build(): the execution loop is over, build() returns nil
Return ==
    /\ pc = "execute"
    /\ index = Len(cmds)
    /\ pc' = "done"
    /\ UNCHANGED << stage, opts, baseImageDigest, image, registry, cmds, compositeKey,
                    index, retrieved, pushed, log, buildNo, prior, cf, fs, sourceImage >>
    /\ UNCHANGED doBuildVars
    /\ UNCHANGED callVars

\* the same options and base image are built a second time against the
\* registry cache the first build left, with the same stage or with a stage
\* that differs in its last instruction
Rebuild ==
    /\ pc = "done"
    /\ buildNo = 1
    /\ buildNo' = 2
    /\ prior' = log
    /\ \E c \in Instructions :
        stage' = IF Len(stage.Commands) = 0 THEN stage
                 ELSE [stage EXCEPT !.Commands[Len(stage.Commands)] = c]
    /\ image' = emptyImage
    /\ pc' = "start"
    /\ cmds' = <<>>
    /\ compositeKey' = <<>>
    /\ index' = 0
    /\ retrieved' = <<>>
    /\ pushed' = <<>>
    /\ log' = <<>>
    /\ cf' = sourceImage.config
    /\ fs' = {}
    /\ UNCHANGED << opts, baseImageDigest, registry, sourceImage >>
    /\ UNCHANGED doBuildVars
    /\ UNCHANGED callVars

Next ==
    \/ Unpack
    \/ GetCommands
    \/ Optimize
    \/ OptimizeDone
    \/ Execute
    \/ Return

Spec == Init /\ [][Next]_vars

\* two builds with the cache on, the first against an empty registry cache
InitRebuild ==
    /\ Init
    /\ opts.Cache
    /\ registry = {}
    /\ Len(stage.Commands) <= MaxRebuildCmds

NextRebuild == Next \/ Rebuild

SpecRebuild == InitRebuild /\ [][NextRebuild]_vars

(***************************************************************************)
(* DoBuild: the stages of a Dockerfile, one after the other.               *)
(***************************************************************************)
RunA == [name |-> "run", str |-> "RUN a"]

EnvKV == [name |-> "env", str |-> "ENV k=v"]

CmdX == [name |-> "cmd", str |-> "CMD [\"x\"]"]

EntrypointY == [name |-> "entrypoint", str |-> "ENTRYPOINT [\"y\"]"]

\* COPY --from=0 /out /d: Name() is "copy", the source is stage 0
CopyFrom0 == [name |-> "copy", str |-> "COPY --from=0 /out /d"]

\* the FROM of a stage: a remote image, scratch, or an earlier stage
RemoteBase(name) == [local |-> FALSE, name |-> name, index |-> NoStage]

StageBase(k) == [local |-> TRUE, name |-> "stage", index |-> k]

\* constants.ScratchEnvVars
ScratchEnvVars == <<"PATH=/usr/local/bin">>

\* empty.Image
emptyBase ==
    [name |-> "scratch", digest |-> "sha256:empty", files |-> <<>>,
     config |-> Config(<<>>, <<>>, <<>>, NilFiles)]

\* the images of the registry: alpine, an image with two ONBUILD triggers,
\* an image one of whose triggers does not parse, and an image whose config
\* has no Env
RemoteImages(name) ==
    CASE name = "noenv" ->
            [name |-> "noenv", digest |-> "sha256:noenv", files |-> <<"/bin/sh">>,
             config |-> Config(<<>>, <<"sh">>, <<>>, NilFiles)]
      [] name = "onbuild" ->
            [name |-> "onbuild", digest |-> "sha256:onbuild", files |-> <<"/bin/sh">>,
             config |-> Config(<<"PATH=/bin">>, <<"sh">>, <<>>,
                               Files(<<"RUN a", "ENTRYPOINT [\"y\"]">>))]
      [] name = "badonbuild" ->
            [name |-> "badonbuild", digest |-> "sha256:badonbuild", files |-> <<"/bin/sh">>,
             config |-> Config(<<"PATH=/bin">>, <<"sh">>, <<>>,
                               Files(<<"RUN a", "???">>))]
      [] OTHER -> alpine

\* the instructions the Dockerfile parser knows
Parsable == { RunA, EnvKV, CmdX, EntrypointY, CopyFrom0,
              [name |-> "copy", str |-> "COPY f /d"],
              [name |-> "maintainer", str |-> "MAINTAINER m"] }

\* dockerfile.ParseCommands(cmdArray)
ParseCommands(cmdArray) ==
    IF \A i \in 1..Len(cmdArray) : \E c \in Parsable : c.str = cmdArray[i]
    THEN [err |-> FALSE,
          cmds |-> [i \in 1..Len(cmdArray) |-> CHOOSE c \in Parsable : c.str = cmdArray[i]]]
    ELSE [err |-> TRUE, cmds |-> <<>>]

\* resolveOnBuild with the bug that the triggers come after the
\* instructions of the stage
resolveOnBuild_triggersLast(st, config) ==
    IF config.OnBuild.isNil THEN [err |-> FALSE, stage |-> st, config |-> config]
    ELSE LET parsed == ParseCommands(config.OnBuild.items) IN
         IF parsed.err THEN [err |-> TRUE, stage |-> st, config |-> config]
         ELSE [err |-> FALSE,
               stage |-> [st EXCEPT !.Commands = st.Commands \o parsed.cmds],
               config |-> [config EXCEPT !.OnBuild = NilFiles]]

\* resolveOnBuild(stage, config)
resolveOnBuild(st, config) ==
    IF config.OnBuild.isNil THEN [err |-> FALSE, stage |-> st, config |-> config]
    ELSE LET parsed == ParseCommands(config.OnBuild.items) IN
         IF parsed.err THEN [err |-> TRUE, stage |-> st, config |-> config]
         ELSE [err |-> FALSE,
               stage |-> [st EXCEPT !.Commands = parsed.cmds \o st.Commands],
               config |-> [config EXCEPT !.OnBuild = NilFiles]]

\* reviewConfig with the bug that ENTRYPOINT clears Cmd even when the stage
\* has a CMD
reviewConfig_ignoringCmd(st, config) ==
    LET entrypoint == \E i \in 1..Len(st.Commands) : st.Commands[i].name = "entrypoint"
    IN IF entrypoint THEN [config EXCEPT !.Cmd = <<>>] ELSE config

\* reviewConfig(stage, config)
reviewConfig(st, config) ==
    LET cmd == \E i \in 1..Len(st.Commands) : st.Commands[i].name = "cmd"
        entrypoint == \E i \in 1..Len(st.Commands) : st.Commands[i].name = "entrypoint"
    IN IF entrypoint /\ ~cmd THEN [config EXCEPT !.Cmd = <<>>] ELSE config

\* getHasher with the bug that every snapshot mode gets the full hasher
getHasher_anyMode(snapshotMode) ==
    IF snapshotMode = "time" THEN [err |-> FALSE, hasher |-> "mtime"]
    ELSE [err |-> FALSE, hasher |-> "full"]

\* getHasher(snapshotMode)
getHasher(snapshotMode) ==
    IF snapshotMode = "time" THEN [err |-> FALSE, hasher |-> "mtime"]
    ELSE IF snapshotMode = "full" THEN [err |-> FALSE, hasher |-> "full"]
    ELSE [err |-> TRUE, hasher |-> ""]

\* the name of the file or directory of stage k below the kaniko directory
Itoa(k) == ToString(k)

\* tarballImage(index): the image stored in the tar file of the stage, an
\* error when the file is not there
tarballImage(tb, fsv, k) ==
    IF (\E e \in fsv : e.dir = "/kaniko/stages" /\ e.name = Itoa(k)) /\ k \in DOMAIN tb
    THEN [err |-> FALSE, image |-> tb[k].image]
    ELSE [err |-> TRUE, image |-> emptyBase]

\* util.RetrieveSourceImage(stage, opts)
RetrieveSourceImage(st, tb, fsv, remoteOk) ==
    IF st.BaseName = "scratch" THEN [err |-> FALSE, image |-> emptyBase]
    ELSE IF st.BaseImageStoredLocally THEN tarballImage(tb, fsv, st.BaseImageIndex)
    ELSE IF remoteOk THEN [err |-> FALSE, image |-> RemoteImages(st.BaseName)]
    ELSE [err |-> TRUE, image |-> emptyBase]

\* util.RetrieveConfigFile(sourceImage)
RetrieveConfigFile(img) ==
    IF img = emptyBase THEN [img.config EXCEPT !.Env = ScratchEnvVars] ELSE img.config

\* the directories util.DeleteFilesystem leaves alone
whitelist == { "/kaniko", "/kaniko/stages", "/var/run" }

\* util.DeleteFilesystem(): everything below / goes, except what is
\* whitelisted
DeleteFilesystem(fsv) == { e \in fsv : e.dir \in whitelist }

\* DoBuild's cleaning between two stages with the bug that it only cleans
\* after a stage that was saved
deleteAfterStage_onlyWhenSaved(st, fsv) ==
    IF st.SaveStage THEN DeleteFilesystem(fsv) ELSE fsv

\* DoBuild: "Delete the filesystem" after a stage that is not the final one
deleteAfterStage(st, fsv) == DeleteFilesystem(fsv)

\* the files of all layers of an image, in the order of the layers
RECURSIVE layerFiles(_)
layerFiles(layers) ==
    IF layers = <<>> THEN <<>> ELSE Head(layers).files \o layerFiles(Tail(layers))

\* mutate.Config(sb.image, sb.cf.Config) seen as a base image for later
\* stages: the base of the stage with the layers of the stage on top
asBase(src, img, config, k) ==
    [name |-> "stage", digest |-> "sha256:stage" \o Itoa(k),
     files |-> src.files \o layerFiles(img.Layers), config |-> config]

\* saveStageAsTarball with the bug that the tar file gets the name of the
\* next stage
saveStageAsTarball_wrongIndex(tb, fsv, stageIndex, img) ==
    [tarballs |-> [k \in DOMAIN tb \cup {stageIndex + 1} |->
                      IF k = stageIndex + 1 THEN [stage |-> stageIndex, image |-> img] ELSE tb[k]],
     fs |-> WriteFile(fsv, "/kaniko/stages", Itoa(stageIndex + 1), stageIndex)]

\* saveStageAsTarball(stageIndex, image)
saveStageAsTarball(tb, fsv, stageIndex, img) ==
    [tarballs |-> [k \in DOMAIN tb \cup {stageIndex} |->
                      IF k = stageIndex THEN [stage |-> stageIndex, image |-> img] ELSE tb[k]],
     fs |-> WriteFile(fsv, "/kaniko/stages", Itoa(stageIndex), stageIndex)]

\* extractImageToDependecyDir(index, image)
extractImageToDependecyDir(fsv, stageIndex) ==
    WriteFile(fsv, "/kaniko", Itoa(stageIndex), stageIndex)

\* time.Now(): the wall-clock time of the run, later for the second run
now == buildNo

\* mutate.CreatedAt(img, created)
CreatedAt(img, created) == [img EXCEPT !.Created = created]

\* mutate.Canonical(img): all timestamps of the config and of the files in
\* the layers are set to zero
Canonical(img) ==
    [img EXCEPT !.Created = 0, !.LayerTimes = [i \in 1..Len(img.LayerTimes) |-> 0]]

\* the final stage's image with the bug that Reproducible is not looked at
finalImage_neverCanonical(img, s_opts, t) == CreatedAt(img, t)

\* DoBuild: the image of the final stage gets its creation time and, when
\* opts.Reproducible, is made canonical
finalImage(img, s_opts, t) ==
    IF s_opts.Reproducible THEN Canonical(CreatedAt(img, t)) ELSE CreatedAt(img, t)

\* DoBuild's return on an error with the bug that the error is dropped
returnError_dropped(err) == [returned |-> TRUE, image |-> NilImage, err |-> ""]

\* DoBuild: return nil, err
returnError(err) == [returned |-> TRUE, image |-> NilImage, err |-> err]

\* DoBuild's return of the image with the bug that the config the stage
\* ended with is not applied
returnImage_withoutConfig(img) ==
    [returned |-> TRUE, image |-> [img EXCEPT !.config = emptyBase.config], err |-> ""]

\* DoBuild: return sourceImage, nil
returnImage(img) == [returned |-> TRUE, image |-> img, err |-> ""]

\* dockerfile.Stages(opts): the stages of the parsed Dockerfile; the last
\* stage is the final one, and a stage is saved when a later stage names it
\* in FROM or COPY --from
references(s, k) ==
    \/ s.base.local /\ s.base.index = k
    \/ \E c \in 1..Len(s.Commands) : From(s.Commands[c]) = k

Stages(dockerfile) ==
    [i \in 1..Len(dockerfile) |->
        [Commands |-> dockerfile[i].Commands,
         BaseName |-> dockerfile[i].base.name,
         BaseImageStoredLocally |-> dockerfile[i].base.local,
         BaseImageIndex |-> dockerfile[i].base.index,
         Final |-> i = Len(dockerfile),
         SaveStage |-> \E j \in (i + 1)..Len(dockerfile) : references(dockerfile[j], i - 1)]]

\* the stage with (0-based) index k of a multi-stage Dockerfile of the model
StageChoices(k) ==
    [base : { RemoteBase("alpine"), RemoteBase("badonbuild") } \cup { StageBase(j) : j \in 0..(k - 1) },
     Commands : { <<RunA>>, <<RunA, EnvKV>> } \cup (IF k > 0 THEN { <<CopyFrom0>> } ELSE {})]

RECURSIVE Dockerfiles(_)
Dockerfiles(n) ==
    IF n = 0 THEN { <<>> }
    ELSE LET shorter == Dockerfiles(n - 1) IN
         shorter \cup { Append(d, c) : d \in { x \in shorter : Len(x) = n - 1 },
                                       c \in StageChoices(n - 1) }

\* the config instructions of the stage of a one-stage Dockerfile
ConfigInstructions == { RunA, CmdX, EntrypointY }

OneStageDockerfiles ==
    { <<>> } \cup
    { << [base |-> b, Commands |-> c] >> :
        b \in { RemoteBase("alpine"), RemoteBase("onbuild"), RemoteBase("badonbuild"),
                RemoteBase("scratch"), RemoteBase("noenv") },
        c \in SeqsUpTo(ConfigInstructions, MaxStageCmds) }

\* the state when DoBuild has called dockerfile.Stages on dockerfile
InitDoBuildOf(dockerfile, modes) ==
    /\ stages = Stages(dockerfile)
    /\ stageIdx = 0
    /\ dpc = "stage"
    /\ tarballs = <<>>
    /\ result = NoResult
    /\ opts \in [Cache : {FALSE}, SingleSnapshot : {FALSE}, BuildArgs : BuildArgsChoices,
                 SnapshotMode : modes, Cleanup : BOOLEAN, Reproducible : BOOLEAN]
    /\ registry = {}
    /\ fs = {}
    /\ stage = [Commands |-> <<>>, Final |-> FALSE]
    /\ baseImageDigest = ""
    /\ sourceImage = emptyBase
    /\ cf = emptyBase.config
    /\ image = emptyImage
    /\ pc = "none"
    /\ cmds = <<>>
    /\ compositeKey = <<>>
    /\ index = 0
    /\ retrieved = <<>>
    /\ pushed = <<>>
    /\ log = <<>>
    /\ buildNo = 1
    /\ prior = <<>>
    /\ input = NoCall
    /\ output = NoCall

\* DoBuild: newStageBuilder(opts, stage) for the next stage
NewStageBuilder ==
    /\ dpc = "stage"
    /\ stageIdx < Len(stages)
    /\ \E remoteOk \in BOOLEAN, configOk \in BOOLEAN, digestOk \in BOOLEAN :
        LET st == stages[stageIdx + 1]
            src == RetrieveSourceImage(st, tarballs, fs, remoteOk)
            ob == resolveOnBuild(st, RetrieveConfigFile(src.image))
            err == IF src.err THEN "retrieving the source image"
                   ELSE IF ~configOk THEN "retrieving the config file"
                   ELSE IF ob.err THEN "parsing the ONBUILD triggers"
                   ELSE IF getHasher(opts.SnapshotMode).err THEN "not a valid snapshot mode"
                   ELSE IF ~digestOk THEN "digest of the source image"
                   ELSE ""
        IN IF err # ""
           THEN /\ result' = returnError(err)
                /\ dpc' = "returned"
                /\ UNCHANGED << stage, cf, sourceImage, image, baseImageDigest, pc, log >>
           ELSE /\ stage' = ob.stage
                /\ cf' = ob.config
                /\ sourceImage' = src.image
                /\ image' = emptyImage
                /\ baseImageDigest' = src.image.digest
                /\ pc' = "start"
                /\ log' = <<>>
                /\ dpc' = "building"
                /\ UNCHANGED result
    /\ cmds' = <<>>
    /\ compositeKey' = <<>>
    /\ index' = 0
    /\ UNCHANGED << opts, registry, retrieved, pushed, buildNo, prior, fs,
                    stages, stageIdx, tarballs >>
    /\ UNCHANGED callVars

\* DoBuild: sb.build() returned an error
BuildFailed ==
    /\ dpc = "building"
    /\ pc = "failed"
    /\ result' = returnError("error building stage")
    /\ dpc' = "returned"
    /\ UNCHANGED << stage, opts, baseImageDigest, image, registry, pc, cmds,
                    compositeKey, index, retrieved, pushed, log, buildNo, prior,
                    cf, fs, sourceImage, stages, stageIdx, tarballs >>
    /\ UNCHANGED callVars

\* DoBuild: sb.build() returned nil; the rest of the loop body
FinishStage ==
    /\ dpc = "building"
    /\ pc = "done"
    /\ \E configOk \in BOOLEAN, createdOk \in BOOLEAN, canonicalOk \in BOOLEAN,
          saveOk \in BOOLEAN, extractOk \in BOOLEAN, deleteOk \in BOOLEAN :
        LET st == stages[stageIdx + 1]
            reviewed == reviewConfig(st, cf)
            built == [isNil |-> FALSE, image |-> image, base |-> sourceImage.name,
                      config |-> reviewed, Created |-> 0,
                      LayerTimes |-> [i \in 1..Len(image.Layers) |-> now]]
            saved == saveStageAsTarball(tarballs, fs, stageIdx,
                                        asBase(sourceImage, image, reviewed, stageIdx))
            kept == IF st.SaveStage /\ saveOk THEN saved ELSE [tarballs |-> tarballs, fs |-> fs]
            extracted == IF st.SaveStage /\ extractOk
                         THEN extractImageToDependecyDir(kept.fs, stageIdx)
                         ELSE kept.fs
        IN /\ cf' = reviewed
           /\ IF ~configOk
              THEN /\ result' = returnError("mutate.Config")
                   /\ dpc' = "returned"
                   /\ UNCHANGED << fs, tarballs, stageIdx >>
              ELSE IF st.Final
              THEN /\ dpc' = "returned"
                   /\ UNCHANGED << tarballs, stageIdx >>
                   /\ IF ~createdOk
                      THEN result' = returnError("mutate.CreatedAt") /\ UNCHANGED fs
                      ELSE IF opts.Reproducible /\ ~canonicalOk
                      THEN result' = returnError("mutate.Canonical") /\ UNCHANGED fs
                      ELSE IF opts.Cleanup /\ ~deleteOk
                      THEN result' = returnError("deleting the filesystem") /\ UNCHANGED fs
                      ELSE /\ result' = returnImage(finalImage(built, opts, now))
                           /\ fs' = IF opts.Cleanup THEN DeleteFilesystem(fs) ELSE fs
              ELSE IF st.SaveStage /\ ~saveOk
              THEN /\ result' = returnError("saving the stage as a tarball")
                   /\ dpc' = "returned"
                   /\ UNCHANGED << fs, tarballs, stageIdx >>
              ELSE IF st.SaveStage /\ ~extractOk
              THEN /\ result' = returnError("extracting the stage to its dependency directory")
                   /\ dpc' = "returned"
                   /\ fs' = kept.fs
                   /\ tarballs' = kept.tarballs
                   /\ UNCHANGED stageIdx
              ELSE IF ~deleteOk
              THEN /\ result' = returnError("deleting the filesystem")
                   /\ dpc' = "returned"
                   /\ fs' = extracted
                   /\ tarballs' = kept.tarballs
                   /\ UNCHANGED stageIdx
              ELSE /\ fs' = deleteAfterStage(st, extracted)
                   /\ tarballs' = kept.tarballs
                   /\ stageIdx' = stageIdx + 1
                   /\ dpc' = "stage"
                   /\ UNCHANGED result
    /\ UNCHANGED << stage, opts, baseImageDigest, image, registry, pc, cmds,
                    compositeKey, index, retrieved, pushed, log, buildNo, prior,
                    sourceImage, stages >>
    /\ UNCHANGED callVars

\* DoBuild: the loop over the stages is over without a final stage
NoMoreStages ==
    /\ dpc = "stage"
    /\ stageIdx = Len(stages)
    /\ result' = [returned |-> TRUE, image |-> NilImage, err |-> ""]
    /\ dpc' = "returned"
    /\ UNCHANGED << stage, opts, baseImageDigest, image, registry, pc, cmds,
                    compositeKey, index, retrieved, pushed, log, buildNo, prior,
                    cf, fs, sourceImage, stages, stageIdx, tarballs >>
    /\ UNCHANGED callVars

\* DoBuild returned an image; the same Dockerfile is built a second time
\* with the same options, in a fresh container and at a later time
RunAgain ==
    /\ dpc = "returned"
    /\ ~result.image.isNil
    /\ buildNo = 1
    /\ buildNo' = 2
    /\ prior' = << [log |-> log, image |-> result.image] >>
    /\ stageIdx' = 0
    /\ dpc' = "stage"
    /\ tarballs' = <<>>
    /\ result' = NoResult
    /\ fs' = {}
    /\ stage' = [Commands |-> <<>>, Final |-> FALSE]
    /\ baseImageDigest' = ""
    /\ sourceImage' = emptyBase
    /\ cf' = emptyBase.config
    /\ image' = emptyImage
    /\ pc' = "none"
    /\ cmds' = <<>>
    /\ compositeKey' = <<>>
    /\ index' = 0
    /\ log' = <<>>
    /\ UNCHANGED << opts, registry, retrieved, pushed, stages >>
    /\ UNCHANGED callVars

NextDoBuild ==
    \/ NewStageBuilder
    \/ Unpack
    \/ GetCommands
    \/ Execute
    \/ Return
    \/ BuildFailed
    \/ FinishStage
    \/ NoMoreStages

\* multi-stage Dockerfiles, the layer cache off
InitDoBuild ==
    \E d \in Dockerfiles(MaxStages) : InitDoBuildOf(d, {"full", "bogus"})

SpecDoBuild == InitDoBuild /\ [][NextDoBuild]_vars

\* Dockerfiles of one stage with config instructions and ONBUILD triggers
InitOneStage ==
    \E d \in OneStageDockerfiles : InitDoBuildOf(d, {"full", "time"})

SpecOneStage == InitOneStage /\ [][NextDoBuild]_vars

\* one-stage Dockerfiles FROM alpine that are built twice
InitTwoRuns ==
    \E d \in { <<>> } \cup
              { << [base |-> RemoteBase("alpine"), Commands |-> c] >> :
                    c \in SeqsUpTo({ RunA, EnvKV }, MaxStageCmds) } :
        InitDoBuildOf(d, {"full"})

NextTwoRuns == NextDoBuild \/ RunAgain

SpecTwoRuns == InitTwoRuns /\ [][NextTwoRuns]_vars

(***************************************************************************)
(* Properties.                                                             *)
(***************************************************************************)
\* the key build() has after the instruction at index idx of the stage
writeKey(idx) ==
    Hash(keyOfPrefix(baseImageDigest, opts.BuildArgs, stage.Commands, idx + 1))

\* the log entries of the instruction at index idx
entriesOf(idx) == { j \in 1..Len(log) : log[j].index = idx }

\* the pushes made for the instruction at index idx
pushesOf(idx) == { m \in 1..Len(pushed) : pushed[m].index = idx }

\* an instruction that missed the cache, was really executed and gave a
\* non-empty snapshot
reallyExecutedWithLayer(e) ==
    ~e.cached /\ e.executed /\ e.take /\ e.size > emptyTarSize

\* C1: with Cache on, the key passed to RetrieveLayer for instruction i is
\* the composite key of the base digest, the build args and instructions
\* 0..i, the key under which the layer of instruction i is pushed.
C1_ReadKeyIsWriteKey ==
    \A j \in 1..Len(retrieved) :
        retrieved[j].key = writeKey(retrieved[j].index)

\* C2: once RetrieveLayer misses for an instruction, no later instruction of
\* the stage is replaced by its cached substitute; an instruction that hit
\* (so is before the first miss) and has a cache substitute is replaced.
C2_NoSubstituteAfterMiss ==
    \A j \in 1..Len(cmds) :
        LET afterMiss == \E m \in 1..Len(retrieved) :
                            ~retrieved[m].hit /\ retrieved[m].index < j - 1
            hitHere == \E m \in 1..Len(retrieved) :
                            retrieved[m].hit /\ retrieved[m].index = j - 1
        IN /\ afterMiss => cmds[j].kind # "cached"
           /\ (hitHere /\ stage.Commands[j].name = "run") => cmds[j].kind = "cached"
           /\ hitHere => ~afterMiss

\* a hit that was replaced, then a miss, then a RUN that is not replaced
\* although the key of its lookup is in the cache
C2_Witness ==
    /\ pc = "execute"
    /\ index = 0
    /\ \E h, m, j \in 1..Len(cmds) :
        /\ h < m /\ m < j
        /\ cmds[h].kind = "cached"
        /\ \E r \in 1..Len(retrieved) : retrieved[r].index = m - 1 /\ ~retrieved[r].hit
        /\ stage.Commands[j].name = "run"
        /\ cmds[j].kind = "run"
        /\ \E e \in registry : e.key = lookupKey(compositeKey, cmds, j - 1)

\* C3: cache soundness: when the rebuild has the same composite keys for its
\* first k instructions as the first build, the layers of those instructions
\* are the layers of the first build.
C3_CacheSoundness ==
    (buildNo = 2 /\ pc = "done") =>
        \A k \in 1..Len(log) :
            (k <= Len(prior) /\ \A j \in 1..k : log[j].key = prior[j].key)
                => \A j \in 1..k : log[j].layer = prior[j].layer

\* C4: with Cache on, the layer of an instruction that missed the cache, was
\* really executed and gave a non-empty snapshot is pushed exactly once,
\* under the composite key after that instruction.
C4_MissPushedOnceUnderWriteKey ==
    opts.Cache =>
        \A j \in 1..Len(log) :
            reallyExecutedWithLayer(log[j]) =>
                /\ Cardinality(pushesOf(log[j].index)) = 1
                /\ \A m \in pushesOf(log[j].index) :
                    /\ pushed[m].key = writeKey(log[j].index)
                    /\ pushed[m].layer.by = log[j].str

\* a COPY after another instruction missed, was executed and its layer pushed
C4_Witness ==
    /\ opts.Cache
    /\ pc = "done"
    /\ \E j \in 1..Len(log) :
        /\ reallyExecutedWithLayer(log[j])
        /\ log[j].index > 0
        /\ stage.Commands[log[j].index + 1].name = "copy"
        /\ \E m \in pushesOf(log[j].index) : pushed[m].ok

\* C5: with Cache on, the layer of an instruction executed through its cached
\* substitute is not pushed to the cache again: no pushed key was a cache hit.
C5_CachedLayerNotPushed ==
    /\ \A m \in 1..Len(pushed) :
        \A j \in entriesOf(pushed[m].index) : ~log[j].cached
    /\ \A m \in 1..Len(pushed), r \in 1..Len(retrieved) :
        retrieved[r].hit => pushed[m].key # retrieved[r].key

\* C6: with Cache off, a stage build never calls RetrieveLayer and never
\* pushes a layer to the cache.
C6_NoCacheTrafficWhenDisabled ==
    ~opts.Cache => (retrieved = <<>> /\ pushed = <<>>)

\* Cache off, a non-empty registry cache and a layer appended to the image
C6_Witness ==
    /\ ~opts.Cache
    /\ pc = "done"
    /\ registry # {}
    /\ \E j \in 1..Len(log) : log[j].size > emptyTarSize /\ log[j].layer # NoLayer

\* C7: a failure of the cache push does not fail the build: the layer is
\* still appended to the image and the build goes on after the instruction.
C7_PushFailureNotFatal ==
    \A m \in 1..Len(pushed) :
        ~pushed[m].ok =>
            /\ \E j \in entriesOf(pushed[m].index) : log[j].layer # NoLayer
            /\ ~(pc = "failed" /\ index = pushed[m].index)

C9_NilFilesAlwaysSnapshot ==
    ~opts.SingleSnapshot =>
        \A j \in 1..Len(log) :
            (log[j].executed /\ log[j].files.isNil) => log[j].take

\* C10: in a Final stage with SingleSnapshot off, a snapshot is taken after
\* an instruction exactly when its FilesToSnapshot() is nil or a non-empty
\* list; an instruction with the empty list gives no snapshot and no layer.
C10_FinalStageSnapshotsByFiles ==
    (stage.Final /\ ~opts.SingleSnapshot) =>
        \A j \in 1..Len(log) :
            log[j].executed =>
                /\ log[j].take <=> (log[j].files.isNil \/ Len(log[j].files.items) > 0)
                /\ log[j].files = Files(<<>>) => (log[j].layer = NoLayer /\ log[j].size = 0)

\* a Final stage with a RUN, a COPY and a metadata instruction
C10_Witness ==
    /\ stage.Final
    /\ ~opts.SingleSnapshot
    /\ pc = "done"
    /\ \E a, b, c \in 1..Len(log) :
        /\ log[a].files.isNil /\ log[a].take
        /\ ~log[b].files.isNil /\ Len(log[b].files.items) > 0 /\ log[b].take
        /\ log[c].files = Files(<<>>) /\ ~log[c].take

\* the log entries of the instructions whose layer was appended to the image
appendedEntries == SelectSeq(log, LAMBDA e : e.layer # NoLayer)

\* an instruction after which a snapshot was taken that gave an empty tar
emptyTar(e) == e.take /\ e.tarPath # "" /\ e.size <= emptyTarSize

\* C11: the number of layers the build appended equals the number of
\* non-empty-layer history entries it appended, and the i-th appended history
\* entry has CreatedBy equal to String() of the instruction of the i-th layer.
C11_LayerHistoryAccounting ==
    /\ Len(image.Layers) =
          Cardinality({ h \in 1..Len(image.History) : ~image.History[h].EmptyLayer })
    /\ Len(image.Layers) = Len(appendedEntries)
    /\ Len(image.History) = Len(appendedEntries)
    /\ \A i \in 1..Len(appendedEntries) :
        /\ image.Layers[i] = appendedEntries[i].layer
        /\ image.History[i].CreatedBy = appendedEntries[i].str

\* a finished build that appended the layers of two instructions
C11_Witness ==
    /\ pc = "done"
    /\ Len(image.Layers) >= 2
    /\ \E j \in 1..Len(log) : log[j].executed /\ log[j].layer = NoLayer

\* C13: when the snapshot tar of an instruction is present and has at most
\* emptyTarSize bytes, no layer is appended for the instruction, nothing is
\* pushed for it, and the build does not fail at it.
C13_EmptyTarAddsNothing ==
    \A j \in 1..Len(log) :
        emptyTar(log[j]) =>
            /\ log[j].layer = NoLayer
            /\ pushesOf(log[j].index) = {}
            /\ ~(pc = "failed" /\ index = log[j].index)
            /\ \A h \in 1..Len(image.History) :
                  image.History[h].CreatedBy = log[j].str =>
                      \E k \in 1..Len(log) : k # j /\ log[k].str = log[j].str
                                                   /\ log[k].layer # NoLayer

\* an instruction left a tar of exactly emptyTarSize bytes with the cache
\* on, and the build went on to finish
C13_Witness ==
    /\ pc = "done"
    /\ opts.Cache
    /\ \E j \in 1..Len(log) :
          /\ emptyTar(log[j])
          /\ log[j].size = emptyTarSize
          /\ log[j].index < Len(cmds) - 1

\* C14 (as stated): when the snapshot tar of an instruction is empty, the
\* image's history gets an entry for the instruction that is marked as an
\* empty layer.
C14_EmptyLayerHistoryEntry ==
    \A j \in 1..Len(log) :
        emptyTar(log[j]) =>
            \E h \in 1..Len(image.History) :
                /\ image.History[h].EmptyLayer
                /\ image.History[h].CreatedBy = log[j].str

\* the file named name lies directly below / in fsv
hasFile(fsv, name) == \E e \in fsv : e.dir = "/" /\ e.name = name

\* what a successfully executed instruction a leaves behind is there in the
\* config and the files that the later instruction b found when it started
effectsVisible(a, b) ==
    /\ a.str = "ENV k=v" => \E i \in 1..Len(b.cf.Env) : b.cf.Env[i] = "k=v"
    /\ a.str = "RUN a" => hasFile(b.fs, IF a.cached THEN "/cached" ELSE "/out")
    /\ a.str = "COPY f /d" => hasFile(b.fs, "/d")

\* C12: for two instructions A before B of a stage, the config mutations and
\* filesystem effects of A are complete when B starts, and the layers of the
\* image are in the order of the instructions that produced them.
C12_InstructionOrder ==
    /\ \A j, k \in 1..Len(log) :
          j < k => /\ log[j].index < log[k].index
                   /\ effectsVisible(log[j], log[k])
    /\ \A i, m \in 1..Len(appendedEntries) :
          i < m => appendedEntries[i].index < appendedEntries[m].index
    /\ \A i \in 1..Len(appendedEntries) :
          i <= Len(image.Layers) /\ image.Layers[i] = appendedEntries[i].layer

\* ENV, then a really executed RUN, then COPY, the last two of which
\* produced a layer
C12_Witness ==
    /\ Len(log) = 3
    /\ log[1].str = "ENV k=v" /\ log[1].executed
    /\ log[2].str = "RUN a" /\ ~log[2].cached /\ log[2].layer # NoLayer
    /\ log[3].str = "COPY f /d" /\ log[3].layer # NoLayer

\* the stage DoBuild is at, as dockerfile.Stages returned it
currentStage == stages[stageIdx + 1]

\* stage k is named by the FROM or by a COPY --from of a later stage
referencedLater(k) ==
    \E j \in (k + 2)..Len(stages) :
        \/ stages[j].BaseImageStoredLocally /\ stages[j].BaseImageIndex = k
        \/ \E c \in 1..Len(stages[j].Commands) :
              stages[j].Commands[c].str = "COPY --from=0 /out /d" /\ k = 0

\* C15: stage isolation: when a stage starts, the root filesystem holds
\* nothing that an earlier stage put there outside the whitelist, and once
\* the base image is extracted, what lies outside the whitelist is the
\* extraction of the base image of the stage; every earlier stage that is
\* to be saved was saved before.
C15_StageIsolation ==
    dpc = "building" /\ pc \in {"start", "commands"} =>
        /\ \A e \in fs : e.stage < stageIdx => e.dir \in whitelist
        /\ pc = "start" => \A e \in fs : e.dir \in whitelist
        /\ pc = "commands" =>
              \A e \in fs : e.dir \notin whitelist =>
                  /\ e.origin = "extracted"
                  /\ \E i \in 1..Len(sourceImage.files) : sourceImage.files[i] = e.name
        /\ \A k \in 0..(stageIdx - 1) : stages[k + 1].SaveStage => k \in DOMAIN tarballs

\* the second stage starts from alpine after a first stage whose RUN wrote
\* /out and a pid file below the whitelisted /var/run
C15_Witness ==
    /\ dpc = "building" /\ pc = "commands" /\ stageIdx = 1
    /\ stages[1].Commands[1].str = "RUN a"
    /\ ~stages[1].SaveStage
    /\ \E e \in fs : e.dir = "/var/run" /\ e.stage = 0 /\ e.origin = "written"
    /\ \E e \in fs : e.dir = "/" /\ e.stage = 1

\* C16 (state part): a stage whose base is stage k finds the tarball that
\* stage k wrote, and a stage is saved if and only if a later stage names it
C16_SavedStages ==
    /\ dpc = "building" /\ currentStage.BaseImageStoredLocally =>
          LET k == currentStage.BaseImageIndex IN
          /\ k < stageIdx
          /\ k \in DOMAIN tarballs
          /\ tarballs[k].stage = k
          /\ sourceImage = tarballs[k].image
          /\ \E e \in fs : e.dir = "/kaniko/stages" /\ e.name = ToString(k) /\ e.stage = k
    /\ \A k \in 0..(Len(stages) - 1) :
          /\ k \in DOMAIN tarballs => referencedLater(k) /\ k <= stageIdx
          /\ k < stageIdx /\ referencedLater(k) => k \in DOMAIN tarballs
    /\ \A k \in DOMAIN tarballs : k \in 0..(Len(stages) - 1)

\* C16 (step part): saved tarballs persist until the build ends
C16_TarballsPersist ==
    \A k \in DOMAIN tarballs :
        /\ k \in DOMAIN tarballs' /\ tarballs'[k] = tarballs[k]
        /\ \E e \in fs' : e.dir = "/kaniko/stages" /\ e.name = ToString(k)

\* C16: whenever a stage whose base is a prior stage k is built, the tarball
\* of stage k has been written by stage k and still exists; a stage is saved
\* if and only if a later stage references it by FROM or COPY --from, and
\* saved tarballs persist until the build ends.
C16_BaseFromPriorStage == [](C16_SavedStages) /\ [][C16_TarballsPersist]_vars

\* the second stage is FROM the first, the first ran RUN a with a layer, and
\* the second stage has been unpacked from the tarball
C16_Witness ==
    /\ dpc = "building" /\ pc = "commands" /\ stageIdx = 1
    /\ currentStage.BaseImageStoredLocally /\ currentStage.BaseImageIndex = 0
    /\ Len(sourceImage.files) = 2
    /\ \E e \in fs : e.name = "/out" /\ e.origin = "extracted" /\ e.stage = 1

\* C17 (state part): DoBuild returns a nil image exactly when it returns an
\* error (an empty list of stages aside), and a failed build() is reported
C17_ErrorResult ==
    /\ result.returned /\ result.err # "" => result.image = NilImage
    /\ result.returned /\ result.image.isNil /\ Len(stages) > 0 => result.err # ""
    /\ dpc = "returned" => result.returned
    /\ dpc = "returned" /\ pc = "failed" => result.err # ""

\* C17 (step part): after an error nothing is executed and no stage is
\* started, and the only step DoBuild takes is to return the error
C17_ErrorStops ==
    /\ dpc = "building" /\ pc = "failed" =>
          /\ result'.returned /\ result'.err # "" /\ result'.image = NilImage
          /\ log' = log /\ index' = index /\ stageIdx' = stageIdx
          /\ cf' = cf /\ fs' = fs /\ image' = image /\ tarballs' = tarballs
    /\ result.returned => UNCHANGED vars

\* C17: any error raised while building a stage makes DoBuild return a nil
\* image with a non-nil error, and after the error no further instruction is
\* executed and no later stage is started.
C17_ErrorsAbortBuild == [](C17_ErrorResult) /\ [][C17_ErrorStops]_vars

\* the RUN of the first of two stages failed with ENV still to come, and
\* DoBuild returned the error
C17_Witness ==
    /\ dpc = "returned" /\ pc = "failed" /\ stageIdx = 0
    /\ Len(stages) = 2
    /\ Len(cmds) = 2 /\ index = 0
    /\ Len(log) = 1 /\ ~log[1].executed
    /\ result.err # "" /\ result.image = NilImage

\* C18: when DoBuild reviews the config of a built stage, Cmd is cleared if
\* the stage has an ENTRYPOINT instruction and no CMD instruction, Cmd is
\* unchanged in every other case, and Entrypoint is never changed.
C18_ReviewConfig ==
    [][ dpc = "building" /\ pc = "done" =>
          LET hasCmd == \E i \in 1..Len(currentStage.Commands) :
                            currentStage.Commands[i].name = "cmd"
              hasEntrypoint == \E i \in 1..Len(currentStage.Commands) :
                            currentStage.Commands[i].name = "entrypoint"
          IN /\ cf'.Cmd = IF hasEntrypoint /\ ~hasCmd THEN <<>> ELSE cf.Cmd
             /\ cf'.Entrypoint = cf.Entrypoint
             /\ cf'.Env = cf.Env
             /\ ~result'.image.isNil => result'.image.config = cf' ]_vars

\* a stage FROM alpine (Cmd sh) with only ENTRYPOINT was built and returned
\* with Cmd cleared
C18_Witness ==
    /\ result.returned /\ ~result.image.isNil
    /\ Len(stages) = 1 /\ stages[1].BaseName = "alpine"
    /\ stages[1].Commands = <<EntrypointY>>
    /\ result.image.config.Cmd = <<>>
    /\ result.image.config.Entrypoint = <<"y">>

\* the image DoBuild returned for the one-stage Dockerfile CMD ["x"],
\* ENTRYPOINT ["y"]
cmdThenEntrypoint ==
    /\ result.returned /\ ~result.image.isNil
    /\ Len(stages) = 1
    /\ stages[1].Commands = <<CmdX, EntrypointY>>

\* C19 (as stated): for a stage whose instructions are CMD ["x"] followed by
\* ENTRYPOINT ["y"], the final config has Cmd null and Entrypoint ["y"].
C19_CmdNullAfterEntrypoint ==
    cmdThenEntrypoint =>
        /\ result.image.config.Cmd = <<>>
        /\ result.image.config.Entrypoint = <<"y">>

\* C19 (amended): for a stage whose instructions are CMD ["x"] followed by
\* ENTRYPOINT ["y"], the final config has Cmd ["x"] and Entrypoint ["y"].
C19_CmdKeptAfterEntrypoint ==
    cmdThenEntrypoint =>
        /\ result.image.config.Cmd = <<"x">>
        /\ result.image.config.Entrypoint = <<"y">>

\* FROM alpine, CMD ["x"], ENTRYPOINT ["y"] was built and returned
C19_Witness ==
    /\ cmdThenEntrypoint
    /\ stages[1].BaseName = "alpine"
    /\ Len(log) = 2

\* the instructions that build() executed, by their text
executedStrs == [j \in 1..Len(log) |-> log[j].str]

\* the texts of a list of instructions
strsOf(commands) == [j \in 1..Len(commands) |-> commands[j].str]

\* C20: when the base image config has a non-nil OnBuild list, the stage
\* executes the parsed triggers in their order followed by its own
\* instructions, and the config's OnBuild is nil afterwards; when the
\* triggers do not parse, an error is returned and neither the instruction
\* list nor config.OnBuild is modified.
C20_OnBuildPropagation ==
    /\ dpc = "building" =>
          /\ currentStage.BaseName # "badonbuild"
          /\ cf.OnBuild.isNil
          /\ IF sourceImage.config.OnBuild.isNil
             THEN stage.Commands = currentStage.Commands
             ELSE /\ strsOf(stage.Commands) =
                        sourceImage.config.OnBuild.items \o strsOf(currentStage.Commands)
                  /\ stage.Commands = <<RunA, EntrypointY>> \o currentStage.Commands
          /\ pc = "done" => executedStrs = strsOf(stage.Commands)
    /\ result.returned /\ ~result.image.isNil => result.image.config.OnBuild.isNil
    /\ \A k \in 1..Len(stages) :
          LET bad == RemoteImages("badonbuild").config
              r == resolveOnBuild(stages[k], bad)
          IN r.err /\ r.stage = stages[k] /\ r.config = bad
    /\ result.err = "parsing the ONBUILD triggers" =>
          /\ currentStage.BaseName = "badonbuild"
          /\ pc = "none" /\ log = <<>> /\ fs = {}

\* a stage with its own CMD on the image with the two triggers was built:
\* RUN a, ENTRYPOINT ["y"], CMD ["x"] were executed in this order
C20_Witness ==
    /\ dpc = "building" /\ pc = "done"
    /\ currentStage.BaseName = "onbuild"
    /\ currentStage.Commands = <<CmdX>>
    /\ Len(log) = 3
    /\ log[1].str = "RUN a" /\ log[3].str = "CMD [\"x\"]"

\* the image whose trigger does not parse made DoBuild return the error
C20_WitnessError ==
    /\ result.returned /\ result.err = "parsing the ONBUILD triggers"
    /\ Len(stages[1].Commands) > 0

\* C21 (as stated): when the stage builder is set up, config.Env is the
\* default PATH entry if the config of the base image has no Env (scratch or
\* any other image), and the Env of the base image otherwise.
C21_EnvInitialised ==
    dpc = "building" /\ pc = "start" =>
        cf.Env = IF sourceImage.config.Env = <<>>
                 THEN ScratchEnvVars
                 ELSE sourceImage.config.Env

C30_NonFinalLastSnapshotIsFull ==
    \A j \in 1..Len(log) :
        ~stage.Final /\ log[j].index = Len(stage.Commands) - 1 /\ log[j].take =>
            log[j].full

\* what the environment decided at the instruction of a log entry: whether
\* it succeeded, the snapshot it left, and the output it produced
effectsOf(e) ==
    [executed |-> e.executed, tarPath |-> e.tarPath, size |-> e.size, gen |-> e.layer.gen]

\* the instructions of the second run had the same effects as those of the
\* first run
sameEffects ==
    /\ Len(log) = Len(prior[1].log)
    /\ \A j \in 1..Len(log) : effectsOf(log[j]) = effectsOf(prior[1].log[j])

\* C24: two runs of DoBuild with Reproducible over the same Dockerfile,
\* context and build args, whose instructions have the same effects and that
\* start at different times, return the same image: the same config with
\* Created zero, the same layers with all timestamps zero.
C24_Reproducible ==
    /\ buildNo = 2
    /\ dpc = "returned"
    /\ ~result.image.isNil
    /\ opts.Reproducible
    /\ sameEffects
    => /\ result.image = prior[1].image
       /\ result.image.Created = 0
       /\ \A i \in 1..Len(result.image.LayerTimes) : result.image.LayerTimes[i] = 0

\* the second run returned an image with a layer, at a later time than the
\* first run
C24_Witness ==
    /\ buildNo = 2
    /\ now = 2
    /\ dpc = "returned"
    /\ ~result.image.isNil
    /\ opts.Reproducible
    /\ sameEffects
    /\ Len(result.image.image.Layers) >= 1

---------------------------------------------------------------------------
\* Functions called on their own: the build does not run

NoBuild ==
    /\ stages = <<>>
    /\ stageIdx = 0
    /\ dpc = "none"
    /\ tarballs = <<>>
    /\ result = NoResult
    /\ opts = [Cache |-> FALSE, SingleSnapshot |-> FALSE, BuildArgs |-> <<>>,
               SnapshotMode |-> "full", Cleanup |-> FALSE, Reproducible |-> FALSE]
    /\ registry = {}
    /\ fs = {}
    /\ stage = [Commands |-> <<>>, Final |-> FALSE]
    /\ baseImageDigest = ""
    /\ sourceImage = emptyBase
    /\ cf = emptyBase.config
    /\ image = emptyImage
    /\ pc = "none"
    /\ cmds = <<>>
    /\ compositeKey = <<>>
    /\ index = 0
    /\ retrieved = <<>>
    /\ pushed = <<>>
    /\ log = <<>>
    /\ buildNo = 1
    /\ prior = <<>>

\* a binding NAME=value of an environment or of the build args
Binding(k, v) == [key |-> k, value |-> v]

\* the value bound to name in envs, "" when it is unbound (the lists of the
\* inputs bind a name at most once)
Lookup(envs, name) ==
    IF \E i \in 1..Len(envs) : envs[i].key = name
    THEN envs[CHOOSE i \in 1..Len(envs) : envs[i].key = name].value
    ELSE ""

\* dockerfile.BuildArgs.ReplacementEnvs: the config's Env followed by the
\* declared args
ReplacementEnvs(buildArgs, configEnv) == configEnv \o buildArgs

\* the words of the inputs that are a reference to a variable, and the
\* variable they name
VarOf(word) ==
    CASE word = "$envuser" -> "envuser"
      [] word = "$envgroup" -> "envgroup"
      [] word = "$arguser" -> "arguser"
      [] word = "/foo/$key1" -> "key1"
      [] word = "/tmp/$myFile" -> "myFile"
      [] OTHER -> ""

\* what such a word has in front of the reference
PrefixOf(word) ==
    CASE word = "/foo/$key1" -> "/foo/"
      [] word = "/tmp/$myFile" -> "/tmp/"
      [] OTHER -> ""

\* util.ResolveEnvironmentReplacement of a single word: a reference is
\* replaced by the value bound to the variable (nothing when it is unbound),
\* any other word is kept
ResolveEnvironmentReplacement(word, envs) ==
    IF VarOf(word) # "" THEN PrefixOf(word) \o Lookup(envs, VarOf(word)) ELSE word

---------------------------------------------------------------------------
\* USER (pkg/commands/user.go)

\* /etc/passwd and /etc/group: names and ids
passwd == { [name |-> "root", id |-> "0"] }
group == { [name |-> "root", id |-> "0"] }

\* util.GetUserFromUsername: the user is looked up by name and then by id,
\* the group likewise when one is given
GetUserFromUsername(userStr, groupStr) ==
    LET users == { u \in passwd : u.name = userStr \/ u.id = userStr }
        groups == { g \in group : g.name = groupStr \/ g.id = groupStr }
    IN  IF users = {} THEN [err |-> "user: unknown user " \o userStr]
        ELSE IF groupStr # "" /\ groups = {}
        THEN [err |-> "group: unknown group " \o groupStr]
        ELSE [err |-> ""]

\* a bug: config.User is assigned before the user and group are validated
UserCommand_ExecuteCommand_assignsFirst(userAndGroup, config, buildArgs) ==
    LET replacementEnvs == ReplacementEnvs(buildArgs, config.Env)
        userStr == ResolveEnvironmentReplacement(userAndGroup[1], replacementEnvs)
        groupStr == IF Len(userAndGroup) > 1
                    THEN ResolveEnvironmentReplacement(userAndGroup[2], replacementEnvs)
                    ELSE ""
        found == GetUserFromUsername(userStr, groupStr)
        written == IF groupStr # "" THEN userStr \o ":" \o groupStr ELSE userStr
    IN  [err |-> found.err, config |-> [config EXCEPT !.User = written]]

\* UserCommand.ExecuteCommand on the parts strings.Split(u, ":") of the
\* instruction's argument: both parts are resolved, then validated, and only
\* then is config.User assigned
UserCommand_ExecuteCommand(userAndGroup, config, buildArgs) ==
    LET replacementEnvs == ReplacementEnvs(buildArgs, config.Env)
        userStr == ResolveEnvironmentReplacement(userAndGroup[1], replacementEnvs)
        groupStr == IF Len(userAndGroup) > 1
                    THEN ResolveEnvironmentReplacement(userAndGroup[2], replacementEnvs)
                    ELSE ""
        found == GetUserFromUsername(userStr, groupStr)
        written == IF groupStr # "" THEN userStr \o ":" \o groupStr ELSE userStr
    IN  IF found.err # "" THEN [err |-> found.err, config |-> config]
        ELSE [err |-> "", config |-> [config EXCEPT !.User = written]]

\* the arguments of USER, split at ":"
UserArguments ==
    { <<u>> : u \in {"root", "0", "fakeUser", "$envuser", "$arguser"} }
    \cup { <<u, g>> : u \in {"root", "0", "fakeUser", "$envuser", "$arguser"},
                      g \in {"root", "0", "fakeGroup", "$envgroup", ""} }

\* the environments of the config USER runs against
UserEnvs ==
    { <<>>,
      << Binding("envuser", "root") >>,
      << Binding("envuser", "root"), Binding("envgroup", "root") >>,
      << Binding("envuser", "ghost"), Binding("envgroup", "ghosts") >> }

UserBuildArgs == { <<>>, << Binding("arguser", "0") >> }

InitUser ==
    /\ NoBuild
    /\ \E userAndGroup \in UserArguments, env \in UserEnvs,
          user \in {"", "nobody"}, buildArgs \in UserBuildArgs :
        input = [fn |-> "UserCommand", userAndGroup |-> userAndGroup,
                 config |-> [Env |-> env, User |-> user], buildArgs |-> buildArgs]
    /\ output = NoCall

\* one USER instruction is executed
CallUserCommand ==
    /\ input.fn = "UserCommand"
    /\ output = NoCall
    /\ LET r == UserCommand_ExecuteCommand(input.userAndGroup, input.config, input.buildArgs)
       IN  output' = [fn |-> "UserCommand", err |-> r.err, config |-> r.config]
    /\ UNCHANGED input
    /\ UNCHANGED buildVars

NextUser == CallUserCommand

SpecUser == InitUser /\ [][NextUser]_vars

\* the user and the group of the input after the replacement of variables
resolvedUser ==
    ResolveEnvironmentReplacement(input.userAndGroup[1],
                                  ReplacementEnvs(input.buildArgs, input.config.Env))

resolvedGroup ==
    IF Len(input.userAndGroup) > 1
    THEN ResolveEnvironmentReplacement(input.userAndGroup[2],
                                       ReplacementEnvs(input.buildArgs, input.config.Env))
    ELSE ""

userExists == resolvedUser \in {"root", "0"}

groupExists == resolvedGroup \in {"", "root", "0"}

\* C29: USER validates before it mutates. When the resolved user or group
\* does not exist the call returns an error and config.User is what it was;
\* when both exist config.User becomes the resolved "user" or "user:group",
\* as written, names not converted to ids.
C29_UserValidatesBeforeMutating ==
    output.fn = "UserCommand" =>
        IF userExists /\ groupExists
        THEN /\ output.err = ""
             /\ output.config.User =
                    IF resolvedGroup = "" THEN resolvedUser
                    ELSE resolvedUser \o ":" \o resolvedGroup
             /\ output.config.Env = input.config.Env
        ELSE /\ output.err # ""
             /\ output.config = input.config

\* USER with an unknown group after a known user failed and left the user of
\* the config alone
C29_Witness ==
    /\ output.fn = "UserCommand"
    /\ userExists
    /\ ~groupExists
    /\ input.config.User = "nobody"
    /\ output.err # ""
    /\ output.config.User = "nobody"

\* USER given as names through variables succeeded and wrote the names
C29_WitnessNames ==
    /\ output.fn = "UserCommand"
    /\ input.userAndGroup = <<"$envuser", "$envgroup">>
    /\ input.config.User = "nobody"
    /\ output.err = ""
    /\ output.config.User = "root:root"

---------------------------------------------------------------------------
\* ResolveStages (pkg/dockerfile/dockerfile.go)

\* nameToIndex with key bound to val
Put(nameToIndex, key, val) ==
    [ k \in DOMAIN nameToIndex \cup {key} |-> IF k = key THEN val ELSE nameToIndex[k] ]

\* make(map[string]string)
emptyMap == [ k \in {} |-> "" ]

\* a bug: the map also takes the index back to the name
recordName_bothWays(nameToIndex, st, idx) ==
    IF st.Name # idx
    THEN Put(Put(nameToIndex, st.Name, idx), idx, st.Name)
    ELSE nameToIndex

\* ResolveStages, per stage: the stage's name is recorded unless it is the
\* stage's own index
recordName(nameToIndex, st, idx) ==
    IF st.Name # idx THEN Put(nameToIndex, st.Name, idx) ELSE nameToIndex

\* ResolveStages, per command: a COPY whose From is a recorded name gets the
\* index instead
resolveFrom(cmd, nameToIndex) ==
    IF cmd.name = "copy" /\ cmd.From # "" /\ cmd.From \in DOMAIN nameToIndex
    THEN [cmd EXCEPT !.From = nameToIndex[cmd.From]]
    ELSE cmd

\* ResolveStages from the i-th stage on (i counts from 1), with the names
\* recorded so far: a COPY sees the names of the stages up to its own
RECURSIVE ResolveStagesFrom(_, _, _)
ResolveStagesFrom(stgs, i, nameToIndex) ==
    IF i > Len(stgs) THEN stgs
    ELSE LET m == recordName(nameToIndex, stgs[i], Itoa(i - 1))
             resolved == [ c \in 1..Len(stgs[i].Commands) |->
                             resolveFrom(stgs[i].Commands[c], m) ]
         IN  ResolveStagesFrom([stgs EXCEPT ![i].Commands = resolved], i + 1, m)

\* a bug: the names of all the stages are recorded before the first COPY is
\* looked at
ResolveStages_allNamesFirst(stgs) ==
    ResolveStagesFrom(stgs, 1,
        [ nm \in { stgs[k].Name : k \in 1..Len(stgs) } |->
            Itoa((CHOOSE k \in 1..Len(stgs) : stgs[k].Name = nm) - 1) ])

ResolveStages(stgs) == ResolveStagesFrom(stgs, 1, emptyMap)

\* instructions of the stages ResolveStages is given
CopyFrom(from) == [name |-> "copy", From |-> from]
RunInStage == [name |-> "run", From |-> ""]

\* the values of --from: none, a stage name, an index
FromValues == {"", "builder", "base", "0", "1"}

\* the instructions of one stage
StageBodies ==
    { <<RunInStage>> }
    \cup { << CopyFrom(f) >> : f \in FromValues }
    \cup { << RunInStage, CopyFrom(f) >> : f \in FromValues }

\* the names of the stage at index k: none, a name (a letter first, as the
\* parser of FROM ... AS requires), or its own index
StageNames(k) == {"", "builder", "base", Itoa(k)}

\* the lists of n stages
RECURSIVE StageLists(_)
StageLists(n) ==
    IF n = 0 THEN { <<>> }
    ELSE { Append(l, [Name |-> nm, Commands |-> b]) :
             l \in StageLists(n - 1), nm \in StageNames(n - 1), b \in StageBodies }

InitResolveStages ==
    /\ NoBuild
    /\ \E n \in 1..MaxStages : \E l \in StageLists(n) :
        input = [fn |-> "ResolveStages", stages |-> l]
    /\ output = [fn |-> "ResolveStages", calls |-> 0, original |-> <<>>, before |-> <<>>]

\* ResolveStages(stages): the list is changed in place
CallResolveStages ==
    /\ input.fn = "ResolveStages"
    /\ output.calls = 0
    /\ input' = [input EXCEPT !.stages = ResolveStages(@)]
    /\ output' = [output EXCEPT !.calls = 1, !.original = input.stages,
                                !.before = input.stages]
    /\ UNCHANGED buildVars

\* ResolveStages(stages) once more, on the list the first call left
CallResolveStagesAgain ==
    /\ input.fn = "ResolveStages"
    /\ output.calls = 1
    /\ input' = [input EXCEPT !.stages = ResolveStages(@)]
    /\ output' = [output EXCEPT !.calls = 2, !.before = input.stages]
    /\ UNCHANGED buildVars

NextResolveStages == CallResolveStages \/ CallResolveStagesAgain

SpecResolveStages == InitResolveStages /\ [][NextResolveStages]_vars

\* the --from values of a list of stages, stage by stage
fromValues(stgs) ==
    [ i \in 1..Len(stgs) |->
        [ c \in 1..Len(stgs[i].Commands) |-> stgs[i].Commands[c].From ] ]

\* C28: ResolveStages is idempotent: applied to its own output it changes no
\* COPY --from value, for every list of stages.
C28_ResolveStagesIdempotent ==
    (output.fn = "ResolveStages" /\ output.calls = 2)
        => fromValues(input.stages) = fromValues(output.before)

\* the first application replaced a name by an index and left another
\* reference (to a stage further down) unresolved; the second was applied
C28_Witness ==
    /\ output.fn = "ResolveStages"
    /\ output.calls = 2
    /\ Len(input.stages) >= 2
    /\ output.original[1].Name = "base"
    /\ output.original[1].Commands = << CopyFrom("builder") >>
    /\ output.original[2].Name = "builder"
    /\ output.original[2].Commands = << RunInStage, CopyFrom("base") >>
    /\ input.stages[1].Commands = << CopyFrom("builder") >>
    /\ input.stages[2].Commands = << RunInStage, CopyFrom("0") >>

---------------------------------------------------------------------------
\* Dependencies (pkg/dockerfile/dockerfile.go)

\* util.UpdateConfigEnv for one ENV key value: the binding of the key is
\* replaced where it is, or added at the end
UpdateConfigEnv(env, key, value) ==
    IF \E i \in 1..Len(env) : env[i].key = key
    THEN [ i \in 1..Len(env) |-> IF env[i].key = key THEN Binding(key, value) ELSE env[i] ]
    ELSE Append(env, Binding(key, value))

\* BuildArgs.AddArg of an ARG with a value
AddArg(buildArgs, key, value) == UpdateConfigEnv(buildArgs, key, value)

\* util.ResolveEnvironmentReplacementList
ResolveEnvironmentReplacementList(words, envs) ==
    [ i \in 1..Len(words) |-> ResolveEnvironmentReplacement(words[i], envs) ]

\* util.ResolveSources without wildcards: the sources, i.e. all but the
\* destination
ResolveSources(srcsAndDest) == SubSeq(srcsAndDest, 1, Len(srcsAndDest) - 1)

\* filepath.IsAbs on the paths of the inputs
IsAbs(path) == path # "rel.txt"

\* filepath.Join(constants.RootDir, src)
JoinRoot(path) == "/" \o path

\* the loop of lines 121-126: relative sources are put under the root
absolute(srcs) ==
    [ i \in 1..Len(srcs) |-> IF IsAbs(srcs[i]) THEN srcs[i] ELSE JoinRoot(srcs[i]) ]

\* instructions of the stages Dependencies is given
EnvInstruction(k, v) == [name |-> "env", key |-> k, value |-> v]
ArgInstruction(k, v) == [name |-> "arg", key |-> k, value |-> v]
CopyInstruction(from, srcsAndDest) ==
    [name |-> "copy", From |-> from, SourcesAndDest |-> srcsAndDest]
RunInstruction == [name |-> "run"]

\* the Env of the remote images
RemoteEnv(name) ==
    IF name = "withenv" THEN << Binding("key1", "baseval1") >> ELSE <<>>

\* the stage index a base name stands for, NoStage for a remote image
BaseIndex(baseName) ==
    CASE baseName = "stage0" -> 0
      [] baseName = "stage1" -> 1
      [] baseName = "stage2" -> 2
      [] baseName = "stage3" -> 3
      [] OTHER -> NoStage

\* the Env with which a stage ends: the Env of its base with the ENV
\* instructions of the stage applied in order
RECURSIVE EnvAfter(_, _)
EnvAfter(env, commands) ==
    IF commands = <<>> THEN env
    ELSE LET c == Head(commands)
         IN  EnvAfter(IF c.name = "env" THEN UpdateConfigEnv(env, c.key, c.value) ELSE env,
                      Tail(commands))

\* util.RetrieveSourceImage(stageIndex, ..., stages) and ConfigFile(): the
\* Env of the base of the stage, a remote image's or, for a base that is an
\* earlier stage, the Env that stage ended with
RECURSIVE SourceEnv(_, _)
SourceEnv(stgs, stageIndex) ==
    LET base == stgs[stageIndex + 1].BaseName
    IN  IF BaseIndex(base) = NoStage THEN RemoteEnv(base)
        ELSE EnvAfter(SourceEnv(stgs, BaseIndex(base)), stgs[BaseIndex(base) + 1].Commands)

\* a bug: every COPY --from counts, whichever stage it names
consumes_anyStage(c, idx) == c.From # ""

\* line 108: the COPY reads from the stage asked about
consumes(c, idx) == c.From = Itoa(idx)

\* the loop over the commands of one stage, lines 98-129, from command n on
RECURSIVE DependenciesOfCommands(_, _, _, _)
DependenciesOfCommands(commands, n, st, idx) ==
    IF n > Len(commands) THEN st
    ELSE LET c == commands[n]
             replacementEnvs == ReplacementEnvs(st.buildArgs, st.env)
         IN  CASE c.name = "env" ->
                    DependenciesOfCommands(commands, n + 1,
                        [st EXCEPT !.env = UpdateConfigEnv(st.env, c.key, c.value)], idx)
               [] c.name = "arg" ->
                    DependenciesOfCommands(commands, n + 1,
                        [st EXCEPT !.buildArgs = AddArg(st.buildArgs, c.key, c.value)], idx)
               [] c.name = "copy" /\ consumes(c, idx) ->
                    DependenciesOfCommands(commands, n + 1,
                        [st EXCEPT !.dependencies = @ \o absolute(ResolveSources(
                            ResolveEnvironmentReplacementList(c.SourcesAndDest, replacementEnvs)))],
                        idx)
               [] OTHER -> DependenciesOfCommands(commands, n + 1, st, idx)

\* the loop over the stages, lines 86-130, from stage stageIndex on; the
\* build args are shared by all the stages, the Env starts again at the base
\* of each stage
RECURSIVE DependenciesOfStages(_, _, _, _, _)
DependenciesOfStages(stgs, stageIndex, buildArgs, dependencies, idx) ==
    IF stageIndex >= Len(stgs) THEN dependencies
    ELSE IF stageIndex <= idx
    THEN DependenciesOfStages(stgs, stageIndex + 1, buildArgs, dependencies, idx)
    ELSE LET st == DependenciesOfCommands(stgs[stageIndex + 1].Commands, 1,
                       [env |-> SourceEnv(stgs, stageIndex), buildArgs |-> buildArgs,
                        dependencies |-> dependencies], idx)
         IN  DependenciesOfStages(stgs, stageIndex + 1, st.buildArgs, st.dependencies, idx)

\* Dependencies(index, stages, buildArgs); failsAt is the first stage whose
\* source image cannot be retrieved, NoStage when all can
Dependencies(idx, stgs, buildArgs, failsAt) ==
    IF failsAt # NoStage /\ failsAt > idx
    THEN [err |-> "retrieving the source image", dependencies |-> NilFiles]
    ELSE [err |-> "", dependencies |-> Files(DependenciesOfStages(stgs, 0, buildArgs, <<>>, idx))]

\* what a stage can consist of
DependencyBodies ==
    { << RunInstruction >>,
      << EnvInstruction("key1", "val1") >>,
      << CopyInstruction("0", << "/foo", "/bar" >>) >>,
      << EnvInstruction("key1", "val1"),
         CopyInstruction("0", << "/foo/$key1", "rel.txt", "/bar" >>) >>,
      << CopyInstruction("0", << "/foo/$key1", "/bar" >>),
         EnvInstruction("key1", "val1") >>,
      << ArgInstruction("myFile", "foo"),
         CopyInstruction("1", << "/tmp/$myFile", "." >>) >>,
      << CopyInstruction("1", << "/tmp/$myFile", "/baz" >>) >> }

\* the bases of the stage at index k: a remote image or the stage before
DependencyBases(k) ==
    IF k = 0 THEN {"debian", "withenv"} ELSE {"debian", "stage" \o Itoa(k - 1)}

RECURSIVE DependencyStages(_)
DependencyStages(n) ==
    IF n = 0 THEN { <<>> }
    ELSE { Append(l, [BaseName |-> b, Commands |-> c]) :
             l \in DependencyStages(n - 1), b \in DependencyBases(n - 1),
             c \in DependencyBodies }

InitDependencies ==
    /\ NoBuild
    /\ \E n \in 1..(MaxStages + 1) : \E l \in DependencyStages(n) : \E i \in 0..(n - 1) :
        input = [fn |-> "Dependencies", index |-> i, stages |-> l, buildArgs |-> <<>>]
    /\ output = NoCall

\* Dependencies(index, stages, buildArgs) is called
CallDependencies ==
    /\ input.fn = "Dependencies"
    /\ output = NoCall
    /\ \E failsAt \in {NoStage} \cup (0..(Len(input.stages) - 1)) :
        LET r == Dependencies(input.index, input.stages, input.buildArgs, failsAt)
        IN  output' = [fn |-> "Dependencies", err |-> r.err, dependencies |-> r.dependencies]
    /\ UNCHANGED input
    /\ UNCHANGED buildVars

NextDependencies == CallDependencies

SpecDependencies == InitDependencies /\ [][NextDependencies]_vars

\* the positions (stage, command) of the COPY --from=idx instructions of the
\* stages after idx
consumers(stgs, idx) ==
    { p \in (1..Len(stgs)) \X (1..MaxCmds) :
        /\ p[1] > idx + 1
        /\ p[2] <= Len(stgs[p[1]].Commands)
        /\ stgs[p[1]].Commands[p[2]].name = "copy"
        /\ stgs[p[1]].Commands[p[2]].From = Itoa(idx) }

\* stage order, then instruction order
before(p, q) == p[1] < q[1] \/ (p[1] = q[1] /\ p[2] < q[2])

\* the ARG instructions in front of position p in the stages after idx, as
\* bindings, in order
RECURSIVE argsBefore(_, _, _, _)
argsBefore(stgs, idx, p, q) ==
    IF ~before(q, p) THEN <<>>
    ELSE LET c == stgs[q[1]].Commands
             next == IF q[2] >= Len(c) THEN << q[1] + 1, 0 >> ELSE << q[1], q[2] + 1 >>
             here == IF q[2] >= 1 /\ q[2] <= Len(c) /\ c[q[2]].name = "arg"
                     THEN << c[q[2]] >> ELSE <<>>
         IN  here \o argsBefore(stgs, idx, p, next)

\* the value of a variable at position p: the last ENV of it in front of p in
\* the same stage, else the Env of the stage's base, else the last ARG with
\* a value declared in front of p (the inputs use different names for ENV
\* and ARG)
valueAt(stgs, idx, p, var) ==
    LET c == stgs[p[1]].Commands
        envs == { n \in 1..(p[2] - 1) : c[n].name = "env" /\ c[n].key = var }
        base == SourceEnv(stgs, p[1] - 1)
        args == argsBefore(stgs, idx, p, << idx + 2, 0 >>)
        decl == { n \in 1..Len(args) : args[n].key = var }
    IN  IF envs # {} THEN c[CHOOSE n \in envs : \A m \in envs : m <= n].value
        ELSE IF \E n \in 1..Len(base) : base[n].key = var THEN Lookup(base, var)
        ELSE IF decl # {} THEN args[CHOOSE n \in decl : \A m \in decl : m <= n].value
        ELSE ""

\* the resolved sources of the COPY at position p
sourcesAt(stgs, idx, p) ==
    LET sd == stgs[p[1]].Commands[p[2]].SourcesAndDest
    IN  [ n \in 1..(Len(sd) - 1) |->
            LET w == IF VarOf(sd[n]) # ""
                     THEN PrefixOf(sd[n]) \o valueAt(stgs, idx, p, VarOf(sd[n]))
                     ELSE sd[n]
            IN  IF IsAbs(w) THEN w ELSE JoinRoot(w) ]

\* the sources of the positions of ps, in order
RECURSIVE sourcesInOrder(_, _, _)
sourcesInOrder(stgs, idx, ps) ==
    IF ps = {} THEN <<>>
    ELSE LET p == CHOOSE x \in ps : \A y \in ps : y = x \/ before(x, y)
         IN  sourcesAt(stgs, idx, p) \o sourcesInOrder(stgs, idx, ps \ {p})

C27_WitnessFromOnly ==
    /\ output.fn = "Dependencies"
    /\ output.err = ""
    /\ input.index = 0
    /\ Len(input.stages) = 2
    /\ input.stages[2].BaseName = "stage0"
    /\ output.dependencies.items = <<>>

---------------------------------------------------------------------------
\* DoBuild: order of the stages and what is returned

\* DoBuild returned an image
returnedImage == result.returned /\ ~result.image.isNil

\* what DoBuild returned is the image of the stage it is at, which is the
\* Final one, with the config the stage ended with
C35_ReturnsFinalStage ==
    returnedImage =>
        /\ stageIdx < Len(stages)
        /\ currentStage.Final
        /\ \A k \in 1..stageIdx : ~stages[k].Final
        /\ result.image.image = image
        /\ result.image.base = sourceImage.name
        /\ result.image.config = reviewConfig(currentStage, cf)
        /\ result.image.config = cf

\* the stages are taken one at a time and in the order of their indices, only
\* a stage that is not Final is followed by another, nothing is built after
\* DoBuild returned, and the return of the image deletes the filesystem only
\* when Cleanup is set
C35_InOrder ==
    /\ stageIdx' \in {stageIdx, stageIdx + 1}
    /\ stageIdx' = stageIdx + 1 =>
          /\ dpc = "building" /\ pc = "done" /\ dpc' = "stage"
          /\ ~currentStage.Final
    /\ (dpc' = "building" /\ dpc # "building") => (dpc = "stage" /\ stageIdx' = stageIdx)
    /\ dpc = "returned" => UNCHANGED vars
    /\ (dpc # "returned" /\ dpc' = "returned" /\ ~result'.image.isNil) =>
          fs' = IF opts.Cleanup THEN DeleteFilesystem(fs) ELSE fs

\* C35: DoBuild builds the stages strictly in index order, one at a time,
\* and returns at the first stage marked Final: no stage after it is built,
\* the filesystem is deleted after the Final stage only when Cleanup is set,
\* and the returned image is the Final stage's image with its final config.
C35_SequentialStages == [](C35_ReturnsFinalStage) /\ [][C35_InOrder]_vars

\* a Dockerfile of two stages was built without Cleanup: the image of the
\* second stage is returned and the files of that stage are still there
C35_Witness ==
    /\ returnedImage
    /\ Len(stages) = 2
    /\ stageIdx = 1
    /\ ~opts.Cleanup
    /\ Len(result.image.image.Layers) >= 1
    /\ \E e \in fs : e.dir \notin whitelist

\* the stage was built FROM the image whose ONBUILD triggers are RUN a and
\* ENTRYPOINT ["y"], and has no CMD of its own
inheritedEntrypoint ==
    /\ returnedImage
    /\ Len(stages) = 1
    /\ stages[1].BaseName = "onbuild"
    /\ \A i \in 1..Len(stages[1].Commands) : stages[1].Commands[i].name # "cmd"

\* C37: the review of the final config considers the ONBUILD triggers
\* inherited from the base image: when an inherited trigger is an ENTRYPOINT
\* and neither the triggers nor the stage's instructions hold a CMD,
\* config.Cmd is cleared.
C37_ReviewSeesTriggers ==
    inheritedEntrypoint => result.image.config.Cmd = <<>>

\* C38: whenever DoBuild returns a nil error it returns a non-nil image, for
\* every list of stages, the empty list included.
C38_NilErrorNonNilImage ==
    (result.returned /\ result.err = "") => ~result.image.isNil

\* the instructions of the stage after which build() took a snapshot
snapshotsTaken == { j \in 1..Len(log) : log[j].take }

\* C39: every stage that is not Final, and every Final stage in
\* SingleSnapshot mode, with at least one instruction has exactly one
\* snapshot taken during its build, also when its last instruction is one
\* that yields no command (MAINTAINER).
C39_OneSnapshotPerStage ==
    (/\ dpc = "single"
     /\ pc = "done"
     /\ buildNo = 1
     /\ ~stage.Final \/ opts.SingleSnapshot
     /\ Len(stage.Commands) >= 1)
    => Cardinality(snapshotsTaken) = 1

---------------------------------------------------------------------------
\* ResolveStages: what the first application leaves

\* the stages up to the i-th (counted from 1) of the list as it was given
\* that declare the name from
declaredUpTo(i, from) ==
    { k \in 1..i : from # "" /\ output.original[k].Name = from }

\* C36: after ResolveStages every COPY --from whose value is the name of the
\* same or an earlier stage holds that stage's decimal index, and every COPY
\* --from whose value is already an index or is not the name of such a stage
\* is unchanged; a name only a later stage declares is not resolved.
C36_ResolveStagesResult ==
    (output.fn = "ResolveStages" /\ output.calls >= 1) =>
        /\ Len(input.stages) = Len(output.original)
        /\ \A i \in 1..Len(input.stages) :
            /\ input.stages[i].Name = output.original[i].Name
            /\ Len(input.stages[i].Commands) = Len(output.original[i].Commands)
            /\ \A c \in 1..Len(input.stages[i].Commands) :
                  LET was == output.original[i].Commands[c]
                      is == input.stages[i].Commands[c]
                  IN  IF was.name = "copy" /\ declaredUpTo(i, was.From) # {}
                      THEN /\ is.name = "copy"
                           /\ is.From \in { Itoa(k - 1) : k \in declaredUpTo(i, was.From) }
                      ELSE is = was

\* one application: a COPY of the second stage that named the first stage
\* holds its index, a COPY of the first stage that named the second stage
\* holds the name as before, and a COPY --from=0 is as before
C36_Witness ==
    /\ output.fn = "ResolveStages"
    /\ output.calls = 1
    /\ Len(input.stages) = 2
    /\ output.original[1].Name = "base"
    /\ output.original[1].Commands = << CopyFrom("builder") >>
    /\ output.original[2].Name = "builder"
    /\ output.original[2].Commands = << RunInStage, CopyFrom("base") >>
    /\ input.stages[1].Commands = << CopyFrom("builder") >>
    /\ input.stages[2].Commands = << RunInStage, CopyFrom("0") >>

---------------------------------------------------------------------------
\* The argv of RUN, CMD and ENTRYPOINT (run.go, cmd.go, entrypoint.go)

\* Go slices: heap is the list of the arrays, a slice is an array and a
\* length, its capacity is the length of the array; the nil slice has no
\* array
NilSlice == [arr |-> 0, len |-> 0]

View(heap, sl) == IF sl.arr = 0 THEN <<>> ELSE SubSeq(heap[sl.arr], 1, sl.len)

Cap(heap, sl) == IF sl.arr = 0 THEN 0 ELSE Len(heap[sl.arr])

\* an array of capacity n that starts with xs
Padded(xs, n) == [ i \in 1..n |-> IF i <= Len(xs) THEN xs[i] ELSE "" ]

\* a new array that holds xs and has spare more places
Allocate(heap, xs, spare) ==
    [heap |-> Append(heap, Padded(xs, Len(xs) + spare)),
     slice |-> [arr |-> Len(heap) + 1, len |-> Len(xs)]]

\* append(sl, xs...): in place when the capacity suffices, else in a new
\* array of at least twice the capacity
append(heap, sl, xs) ==
    IF sl.arr # 0 /\ sl.len + Len(xs) <= Cap(heap, sl)
    THEN [heap |-> [heap EXCEPT ![sl.arr] =
                        [ i \in 1..Len(@) |->
                            IF i > sl.len /\ i <= sl.len + Len(xs) THEN xs[i - sl.len] ELSE @[i] ]],
          slice |-> [arr |-> sl.arr, len |-> sl.len + Len(xs)]]
    ELSE LET needed == sl.len + Len(xs)
             double == 2 * Cap(heap, sl)
         IN  Allocate(heap, View(heap, sl) \o xs,
                      IF double > needed THEN double - needed ELSE 0)

\* strings.Join(xs, sep)
RECURSIVE Join(_, _)
Join(xs, sep) ==
    IF xs = <<>> THEN ""
    ELSE IF Len(xs) = 1 THEN xs[1]
    ELSE xs[1] \o sep \o Join(Tail(xs), sep)

\* RunCommand.ExecuteCommand, lines 37-50
RunCommand_newCommand(heap, config, cmd) ==
    IF cmd.PrependShell
    THEN LET shell == IF config.Shell.len > 0
                      THEN [heap |-> heap, slice |-> config.Shell]
                      ELSE append(heap, NilSlice, << "/bin/sh", "-c" >>)
         IN  append(shell.heap, shell.slice, << Join(cmd.CmdLine, " ") >>)
    ELSE Allocate(heap, cmd.CmdLine, 0)

\* CmdCommand.ExecuteCommand, lines 36-49
CmdCommand_newCommand(heap, config, cmd) ==
    IF cmd.PrependShell
    THEN LET shell == IF config.Shell.len > 0
                      THEN [heap |-> heap, slice |-> config.Shell]
                      ELSE append(heap, NilSlice, << "/bin/sh", "-c" >>)
         IN  append(shell.heap, shell.slice, << Join(cmd.CmdLine, " ") >>)
    ELSE Allocate(heap, cmd.CmdLine, 0)

\* a bug: the command line is appended word by word, not joined
EntrypointCommand_newCommand_unjoined(heap, config, cmd) ==
    IF cmd.PrependShell
    THEN LET shell == IF config.Shell.len > 0
                      THEN [heap |-> heap, slice |-> config.Shell]
                      ELSE append(heap, NilSlice, << "/bin/sh", "-c" >>)
         IN  append(shell.heap, shell.slice, cmd.CmdLine)
    ELSE Allocate(heap, cmd.CmdLine, 0)

\* EntrypointCommand.ExecuteCommand, lines 34-47
EntrypointCommand_newCommand(heap, config, cmd) ==
    IF cmd.PrependShell
    THEN LET shell == IF config.Shell.len > 0
                      THEN [heap |-> heap, slice |-> config.Shell]
                      ELSE append(heap, NilSlice, << "/bin/sh", "-c" >>)
         IN  append(shell.heap, shell.slice, << Join(cmd.CmdLine, " ") >>)
    ELSE Allocate(heap, cmd.CmdLine, 0)

\* the RUN, CMD and ENTRYPOINT instructions: shell form or exec form
ArgvInstructions ==
    [name : {"run", "cmd", "entrypoint"}, PrependShell : BOOLEAN,
     CmdLine : { << "echo", "a" >>, << "b" >> }]

\* config.Shell as the base image or SHELL left it: nil, or a shell with or
\* without spare capacity in its array
InitArgv ==
    /\ NoBuild
    /\ \E n \in 1..MaxArgvCmds : \E l \in [1..n -> ArgvInstructions] :
       \E shell \in { <<>>, << "/bin/bash", "-c" >> }, spare \in 0..2 :
        /\ (shell = <<>>) => (spare = 0)
        /\ input = [fn |-> "Argv", Commands |-> l, Shell |-> shell]
        /\ LET a == Allocate(<<>>, shell, spare)
           IN  output = [fn |-> "Argv", n |-> 0,
                         heap |-> IF shell = <<>> THEN <<>> ELSE a.heap,
                         config |-> [Shell |-> IF shell = <<>> THEN NilSlice ELSE a.slice,
                                     Cmd |-> NilSlice, Entrypoint |-> NilSlice],
                         argv |-> <<>>, err |-> FALSE]

\* the next instruction, when the ones before did not fail
nextInstruction == input.Commands[output.n + 1]

argvEnabled(name) ==
    /\ input.fn = "Argv"
    /\ ~output.err
    /\ output.n < Len(input.Commands)
    /\ nextInstruction.name = name

\* RunCommand.ExecuteCommand: the process is run with the argv; the config is
\* not written
ExecuteRun ==
    /\ argvEnabled("run")
    /\ \E ok \in BOOLEAN :
        LET newCommand == RunCommand_newCommand(output.heap, output.config, nextInstruction)
        IN  output' = [output EXCEPT !.n = @ + 1, !.heap = newCommand.heap,
                                     !.argv = View(newCommand.heap, newCommand.slice),
                                     !.err = ~ok]
    /\ UNCHANGED input
    /\ UNCHANGED buildVars

\* CmdCommand.ExecuteCommand
ExecuteCmd ==
    /\ argvEnabled("cmd")
    /\ LET newCommand == CmdCommand_newCommand(output.heap, output.config, nextInstruction)
       IN  output' = [output EXCEPT !.n = @ + 1, !.heap = newCommand.heap,
                                    !.argv = View(newCommand.heap, newCommand.slice),
                                    !.config.Cmd = newCommand.slice]
    /\ UNCHANGED input
    /\ UNCHANGED buildVars

\* EntrypointCommand.ExecuteCommand
ExecuteEntrypoint ==
    /\ argvEnabled("entrypoint")
    /\ LET newCommand == EntrypointCommand_newCommand(output.heap, output.config, nextInstruction)
       IN  output' = [output EXCEPT !.n = @ + 1, !.heap = newCommand.heap,
                                    !.argv = View(newCommand.heap, newCommand.slice),
                                    !.config.Entrypoint = newCommand.slice]
    /\ UNCHANGED input
    /\ UNCHANGED buildVars

NextArgv == ExecuteRun \/ ExecuteCmd \/ ExecuteEntrypoint

SpecArgv == InitArgv /\ [][NextArgv]_vars

\* the instruction executed last
lastInstruction == input.Commands[output.n]

\* the argv the instruction executed last is to build
expectedArgv ==
    IF lastInstruction.PrependShell
    THEN (IF input.Shell # <<>> THEN input.Shell ELSE << "/bin/sh", "-c" >>)
         \o << IF lastInstruction.CmdLine = << "echo", "a" >> THEN "echo a" ELSE "b" >>
    ELSE lastInstruction.CmdLine

\* C31: RUN, CMD and ENTRYPOINT build their argv the same way: with
\* PrependShell it is config.Shell (or /bin/sh -c when config.Shell is empty)
\* followed by one argument, the command line joined by spaces; without
\* PrependShell it is the command line unchanged; config.Shell is never
\* modified.
C31_Argv ==
    (output.fn = "Argv" /\ output.n >= 1) =>
        /\ output.argv = expectedArgv
        /\ lastInstruction.name = "cmd" =>
              View(output.heap, output.config.Cmd) = expectedArgv
        /\ lastInstruction.name = "entrypoint" =>
              View(output.heap, output.config.Entrypoint) = expectedArgv
        /\ View(output.heap, output.config.Shell) = input.Shell
        /\ output.config.Shell.len = Len(input.Shell)

\* a shell-form ENTRYPOINT of two words was executed after another
\* instruction, with a config.Shell whose array has room
C31_Witness ==
    /\ output.fn = "Argv"
    /\ output.n = 2
    /\ lastInstruction.name = "entrypoint"
    /\ lastInstruction.PrependShell
    /\ lastInstruction.CmdLine = << "echo", "a" >>
    /\ input.Shell = << "/bin/bash", "-c" >>
    /\ Cap(output.heap, output.config.Shell) > output.config.Shell.len
    /\ View(output.heap, output.config.Entrypoint) = << "/bin/bash", "-c", "echo a" >>

\* CMD b then ENTRYPOINT echo a, both in shell form with a config.Shell whose
\* array has room: the two appends wrote the same place, and config.Cmd now
\* reads as the ENTRYPOINT's argv
C31_WitnessSharedArray ==
    /\ output.fn = "Argv"
    /\ output.n = 2
    /\ input.Commands[1] = [name |-> "cmd", PrependShell |-> TRUE, CmdLine |-> << "b" >>]
    /\ lastInstruction.name = "entrypoint"
    /\ View(output.heap, output.config.Cmd) = << "/bin/bash", "-c", "echo a" >>

---------------------------------------------------------------------------
\* ADD (pkg/commands/add.go)

\* the build context and the destination of the ADD of the model
buildcontext == "/ctx/"
addDest == "/dest/"

\* the resolved sources an ADD can have: a remote file (a tar archive at that),
\* a local tar archive with one entry, a local tar archive without entries,
\* a plain file
AddSources == { "http://h/f.tar", "a.tar", "e.tar", "f.txt" }

\* util.IsSrcRemoteFileURL
IsSrcRemoteFileURL(src) == src = "http://h/f.tar"

\* util.IsFileLocalTarArchive
IsFileLocalTarArchive(fullPath) == fullPath \in { buildcontext \o "a.tar", buildcontext \o "e.tar" }

\* filepath.Base
Base(src) == IF src = "http://h/f.tar" THEN "f.tar" ELSE src

\* util.URLDestinationFilepath for a dest that ends with a slash
URLDestinationFilepath(src, dest) == dest \o Base(src)

\* the entries of the local tar archives
TarEntries(fullPath) == IF fullPath = buildcontext \o "a.tar" THEN { "t1" } ELSE {}

\* util.UnpackLocalTarArchive(fullPath, dest), as tar -x
UnpackLocalTarArchive(paths, fullPath, dest) ==
    paths \cup { dest \o e : e \in TarEntries(fullPath) }

\* the paths that can exist below the destination, in the order of a walk
destPaths == << "/dest/a.tar", "/dest/e.tar", "/dest/f.tar", "/dest/f.txt", "/dest/old", "/dest/t1" >>

\* util.Files(dest): the files below dest
FilesBelow(paths, dest) == SelectSeq(destPaths, LAMBDA q : q \in paths)

\* append(files, more...) on a []string that may be nil
appendFiles(files, more) ==
    IF files.isNil /\ more = <<>> THEN NilFiles ELSE Files(files.items \o more)

\* CopyCommand.ExecuteCommand for the sources srcs and dest: every source is
\* written to dest under its base name; snapshotFiles are the written paths
CopyCommand_copy(paths, srcs, dest) ==
    [fs |-> paths \cup { dest \o Base(srcs[i]) : i \in 1..Len(srcs) },
     snapshotFiles |-> [ i \in 1..Len(srcs) |-> dest \o Base(srcs[i]) ]]

\* the loop of lines 70-94 from source n on; ok says which calls succeed
RECURSIVE AddCommand_sources(_, _, _, _)
AddCommand_sources(srcs, n, st, ok) ==
    IF n > Len(srcs) \/ st.err # "" THEN st
    ELSE LET src == srcs[n]
             fullPath == buildcontext \o src
         IN  IF IsSrcRemoteFileURL(src)
             THEN LET urlDest == URLDestinationFilepath(src, addDest) IN
                  IF ~ok.download THEN [st EXCEPT !.err = "download"]
                  ELSE AddCommand_sources(srcs, n + 1,
                         [st EXCEPT !.fs = @ \cup {urlDest},
                                    !.snapshotFiles = appendFiles(@, << urlDest >>),
                                    !.how = Append(@, "download"),
                                    !.downloaded = @ \cup {urlDest}], ok)
             ELSE IF IsFileLocalTarArchive(fullPath)
             THEN IF ~ok.unpack THEN [st EXCEPT !.err = "unpack"]
                  ELSE LET unpacked == UnpackLocalTarArchive(st.fs, fullPath, addDest) IN
                       AddCommand_sources(srcs, n + 1,
                         [st EXCEPT !.fs = unpacked,
                                    !.snapshotFiles = appendFiles(@, FilesBelow(unpacked, addDest)),
                                    !.how = Append(@, "unpack"),
                                    !.unpacked = @ \cup { addDest \o e : e \in TarEntries(fullPath) }],
                         ok)
             ELSE AddCommand_sources(srcs, n + 1,
                         [st EXCEPT !.unresolvedSrcs = Append(@, src),
                                    !.how = Append(@, "copy")], ok)

\* AddCommand.ExecuteCommand on the resolved sources, with a.snapshotFiles nil
\* before
AddCommand_ExecuteCommand(srcs, paths, ok) ==
    LET st == AddCommand_sources(srcs, 1,
                  [err |-> "", fs |-> paths, snapshotFiles |-> NilFiles,
                   unresolvedSrcs |-> <<>>, how |-> <<>>,
                   downloaded |-> {}, unpacked |-> {}, copied |-> {}], ok)
    IN  IF st.err # "" THEN st
        ELSE IF Len(st.unresolvedSrcs) = 0 THEN st
        ELSE IF ~ok.copy THEN [st EXCEPT !.err = "copy"]
        ELSE LET copyCmd == CopyCommand_copy(st.fs, st.unresolvedSrcs, addDest) IN
             [st EXCEPT !.fs = copyCmd.fs,
                        !.snapshotFiles = appendFiles(@, copyCmd.snapshotFiles),
                        !.copied = { copyCmd.snapshotFiles[i] : i \in 1..Len(copyCmd.snapshotFiles) }]

\* AddCommand.FilesToSnapshot
AddCommand_FilesToSnapshot(a) == a.snapshotFiles

\* ADD with up to MaxAddSrcs resolved sources (none when a wildcard matches
\* nothing), into a destination that is empty or holds a file
InitAdd ==
    /\ NoBuild
    /\ \E srcs \in SeqsUpTo(AddSources, MaxAddSrcs), paths \in SUBSET { "/dest/old", "/etc/passwd" } :
        input = [fn |-> "Add", srcs |-> srcs, fs |-> paths]
    /\ output = NoCall

\* ExecuteCommand, then FilesToSnapshot
CallAddCommand ==
    /\ input.fn = "Add"
    /\ output = NoCall
    /\ \E ok \in [download : BOOLEAN, unpack : BOOLEAN, copy : BOOLEAN] :
        LET a == AddCommand_ExecuteCommand(input.srcs, input.fs, ok)
        IN  output' = [fn |-> "Add", err |-> a.err, fs |-> a.fs, how |-> a.how,
                       downloaded |-> a.downloaded, unpacked |-> a.unpacked,
                       copied |-> a.copied, files |-> AddCommand_FilesToSnapshot(a)]
    /\ UNCHANGED input
    /\ UNCHANGED buildVars

NextAdd == CallAddCommand

SpecAdd == InitAdd /\ [][NextAdd]_vars

\* ADD returned without an error
added == output.fn = "Add" /\ output.err = ""

\* the elements of a list
Range(f) == { f[i] : i \in 1..Len(f) }

\* C32: ADD handles each resolved source in exactly one way: a remote file
\* is downloaded and never extracted, a local tar archive is unpacked into
\* dest, every other source goes to a COPY; the snapshot file list after a
\* successful ADD is the union of the downloaded targets, the unpacked files
\* and the COPY's written paths.
C32_AddSources ==
    added =>
        /\ Len(output.how) = Len(input.srcs)
        /\ \A i \in 1..Len(input.srcs) :
              output.how[i] = CASE input.srcs[i] = "http://h/f.tar" -> "download"
                                [] input.srcs[i] \in {"a.tar", "e.tar"} -> "unpack"
                                [] OTHER -> "copy"
        /\ \A i \in 1..Len(input.srcs) :
              input.srcs[i] = "f.txt" => addDest \o "f.txt" \in output.fs
        /\ ("a.tar" \notin Range(input.srcs)) => (addDest \o "t1" \notin output.fs)
        /\ Range(output.files.items) = output.downloaded \cup output.unpacked \cup output.copied

\* C33: FilesToSnapshot returns an empty, non-nil list when the ADD changed
\* no files, so that an ADD that wrote nothing never triggers a snapshot of
\* the whole filesystem.
C33_AddNothingIsEmptyList ==
    (added /\ output.fs = input.fs) =>
        /\ ~output.files.isNil
        /\ output.files.items = <<>>
        /\ ~takeSnapshot([SingleSnapshot |-> FALSE], output.files).full

---------------------------------------------------------------------------
\* remoteImage and cachedImage (pkg/util/image_util.go)

\* a returned (v1.Image, error): img is "" for nil
Returned(img, err) == [img |-> img, err |-> err]

\* a call of remoteImage or cachedImage that has not returned
Frame(fn, at, forceNoCache) == [fn |-> fn, at |-> at, forceNoCache |-> forceNoCache]

\* line 96: the local cache is looked at
usesLocalCache(r_opts, forceNoCache) ==
    r_opts.Cache /\ r_opts.CacheDir # "" /\ ~forceNoCache

\* a bug: an error of the cache lookup is returned
afterCachedImage_errorIsFatal(ret) ==
    IF ret.img # "" \/ ret.err # "" THEN "return" ELSE "pull"

\* lines 98-104: a cached image is returned, anything else falls through
afterCachedImage(ret) == IF ret.img # "" THEN "return" ELSE "pull"

\* cache.LocalSource(opts, cacheKey) for the three states of the cache
LocalSource(cacheState) ==
    CASE cacheState = "hit" -> Returned("cached", "")
      [] cacheState = "miss" -> Returned("", "")
      [] OTHER -> Returned("", "reading the cache")

\* remoteImage(image, opts, false) has just been called: the reference is a
\* tag, a digest or does not parse, the registry answers or not
InitRetrieve ==
    /\ NoBuild
    /\ \E ref \in {"tag", "digest", "bad"}, cacheState \in {"hit", "miss", "error"},
          r_opts \in [Cache : BOOLEAN, CacheDir : {"", "/cache"}],
          remoteOk \in BOOLEAN, digestOk \in BOOLEAN :
        input = [fn |-> "remoteImage", ref |-> ref, cacheState |-> cacheState,
                 opts |-> r_opts, remoteOk |-> remoteOk, digestOk |-> digestOk]
    /\ output = [fn |-> "remoteImage", stack |-> << Frame("remoteImage", "enter", FALSE) >>,
                 ret |-> Returned("", ""), events |-> <<>>, done |-> FALSE]

\* the call that is running
top == output.stack[Len(output.stack)]

running(fn, at) ==
    /\ input.fn = "remoteImage"
    /\ Len(output.stack) > 0
    /\ top.fn = fn
    /\ top.at = at

\* the stack after the running call returned, its caller going on at after
returnTo(after) ==
    LET rest == SubSeq(output.stack, 1, Len(output.stack) - 1)
    IN  IF rest = <<>> THEN rest
        ELSE [rest EXCEPT ![Len(rest)].at = after]

\* the stack with the running call at the place at
goTo(at) == [output.stack EXCEPT ![Len(output.stack)].at = at]

\* remoteImage, lines 96-97: cachedImage is called or not
RemoteImage_Enter ==
    /\ running("remoteImage", "enter")
    /\ output' = IF usesLocalCache(input.opts, top.forceNoCache)
                 THEN [output EXCEPT !.stack = Append(goTo("called"), Frame("cachedImage", "enter", FALSE)),
                                     !.events = Append(@, "cachedImage")]
                 ELSE [output EXCEPT !.stack = goTo("pull")]
    /\ UNCHANGED input
    /\ UNCHANGED buildVars

\* cachedImage, lines 142-151: the reference is parsed; a digest is the cache
\* key, for a tag the image is fetched with forceNoCache
CachedImage_Enter ==
    /\ running("cachedImage", "enter")
    /\ output' = CASE input.ref = "bad" ->
                        [output EXCEPT !.stack = returnTo("returned"),
                                       !.ret = Returned("", "parsing the reference")]
                   [] input.ref = "digest" -> [output EXCEPT !.stack = goTo("lookup")]
                   [] OTHER ->
                        [output EXCEPT !.stack = Append(goTo("called"), Frame("remoteImage", "enter", TRUE))]
    /\ UNCHANGED input
    /\ UNCHANGED buildVars

\* remoteImage, lines 106-138: the image is pulled from the registry
RemoteImage_Pull ==
    /\ running("remoteImage", "pull")
    /\ LET ret == IF input.ref = "bad" THEN Returned("", "parsing the reference")
                  ELSE IF input.remoteOk THEN Returned("remote", "")
                  ELSE Returned("", "pulling the image")
           rest == returnTo("returned")
       IN  output' = [output EXCEPT !.stack = rest, !.ret = ret,
                                    !.events = Append(@, IF top.forceNoCache THEN "fetch" ELSE "pull"),
                                    !.done = rest = <<>>]
    /\ UNCHANGED input
    /\ UNCHANGED buildVars

\* cachedImage, lines 152-161: the fetch returned; the digest of the image
\* is the cache key
CachedImage_Digest ==
    /\ running("cachedImage", "returned")
    /\ output' = IF output.ret.err # ""
                 THEN [output EXCEPT !.stack = returnTo("returned"),
                                     !.ret = Returned("", output.ret.err)]
                 ELSE IF ~input.digestOk
                 THEN [output EXCEPT !.stack = returnTo("returned"),
                                     !.ret = Returned("", "digest of the image")]
                 ELSE [output EXCEPT !.stack = goTo("lookup")]
    /\ UNCHANGED input
    /\ UNCHANGED buildVars

\* cachedImage, line 164
CachedImage_LocalSource ==
    /\ running("cachedImage", "lookup")
    /\ output' = [output EXCEPT !.stack = returnTo("returned"),
                                !.ret = LocalSource(input.cacheState),
                                !.events = Append(@, "LocalSource")]
    /\ UNCHANGED input
    /\ UNCHANGED buildVars

\* remoteImage, lines 98-105: cachedImage returned
RemoteImage_AfterCache ==
    /\ running("remoteImage", "returned")
    /\ LET rest == returnTo("returned")
       IN  output' = IF afterCachedImage(output.ret) = "return"
                     THEN [output EXCEPT !.stack = rest,
                                         !.ret = Returned(output.ret.img, ""),
                                         !.done = rest = <<>>]
                     ELSE [output EXCEPT !.stack = goTo("pull")]
    /\ UNCHANGED input
    /\ UNCHANGED buildVars

NextRetrieve ==
    \/ RemoteImage_Enter
    \/ CachedImage_Enter
    \/ RemoteImage_Pull
    \/ CachedImage_Digest
    \/ CachedImage_LocalSource
    \/ RemoteImage_AfterCache

SpecRetrieve == InitRetrieve /\ [][NextRetrieve]_vars

\* every call that can go on does go on
SpecRetrieveFair == SpecRetrieve /\ WF_vars(NextRetrieve)

\* the calls of fn on the stack
callsOf(fn) == { i \in 1..Len(output.stack) : output.stack[i].fn = fn }

\* the place of the first event ev, 0 when there is none
firstEvent(ev) ==
    IF \E i \in 1..Len(output.events) : output.events[i] = ev
    THEN CHOOSE i \in 1..Len(output.events) :
            /\ output.events[i] = ev
            /\ \A j \in 1..(i - 1) : output.events[j] # ev
    ELSE 0

\* the cache is on and has a directory
localCacheOn == input.opts.Cache /\ input.opts.CacheDir # ""

\* remoteImage and cachedImage never nest deeper than remoteImage ->
\* cachedImage -> remoteImage, the inner one with forceNoCache; the cache is
\* asked before the pull; a hit is returned without a pull; a miss or an
\* error of the lookup leaves the result to the pull
C34_CacheThenRegistry ==
    output.fn = "remoteImage" =>
        /\ Cardinality(callsOf("remoteImage")) <= 2
        /\ Cardinality(callsOf("cachedImage")) <= 1
        /\ \A i \in callsOf("remoteImage") : i > 1 => output.stack[i].forceNoCache
        /\ callsOf("cachedImage") # {} => localCacheOn
        /\ firstEvent("pull") # 0 /\ localCacheOn =>
              (firstEvent("cachedImage") # 0 /\ firstEvent("cachedImage") < firstEvent("pull"))
        /\ output.done =>
              /\ output.events # <<>>
              /\ (localCacheOn /\ firstEvent("LocalSource") # 0 /\ input.cacheState = "hit")
                    => (output.ret = Returned("cached", "") /\ firstEvent("pull") = 0)
              /\ ~(localCacheOn /\ firstEvent("LocalSource") # 0 /\ input.cacheState = "hit")
                    => /\ firstEvent("pull") # 0
                       /\ output.ret = IF input.ref = "bad" THEN Returned("", "parsing the reference")
                                       ELSE IF input.remoteOk THEN Returned("remote", "")
                                       ELSE Returned("", "pulling the image")

\* C34: with Cache on and CacheDir set the local cache is consulted before
\* the registry; a miss or an error of the lookup is not fatal and falls
\* through to the remote pull; the lookup's own fetch is made with caching
\* forced off, so the two functions never recurse more than one level and
\* the retrieval always terminates.
C34_Retrieval == [](C34_CacheThenRegistry) /\ <>(output.fn = "remoteImage" /\ output.done)

\* the lookup fetched the image of a tag, its digest could not be computed,
\* and the image was pulled all the same
C34_Witness ==
    /\ output.fn = "remoteImage"
    /\ output.done
    /\ input.ref = "tag"
    /\ ~input.digestOk
    /\ output.events = << "cachedImage", "fetch", "pull" >>
    /\ output.ret = Returned("remote", "")

\* the lookup of a tag found the image in the cache
C34_WitnessHit ==
    /\ output.fn = "remoteImage"
    /\ output.done
    /\ output.events = << "cachedImage", "fetch", "LocalSource" >>
    /\ output.ret = Returned("cached", "")

---------------------------------------------------------------------------
\* uncompressedImageExtender.Manifest (go-containerregistry v1/partial)

Threads == 1..MaxThreads

\* i.manifest == nil
NilManifest == [id |-> 0, Config |-> "", Layers |-> <<>>]

\* the layers an image can have, by digest and size
ImageLayers ==
    { <<>>,
      << [Digest |-> "sha256:l1", Size |-> 10] >>,
      << [Digest |-> "sha256:l1", Size |-> 10], [Digest |-> "sha256:l2", Size |-> 20] >> }

\* a bug: the stored manifest is not looked at
hasManifest_never(manifest) == FALSE

\* line 123: i.manifest != nil
hasManifest(manifest) == manifest # NilManifest

\* lines 163-167: the descriptor of a layer
Descriptor(l) == [MediaType |-> "layer", Size |-> l.Size, Digest |-> l.Digest]

\* no goroutine holds i.lock
Unlocked == 0

\* an image whose manifest was not asked for yet
InitManifest ==
    /\ NoBuild
    /\ \E layers \in ImageLayers : input = [fn |-> "Manifest", layers |-> layers]
    /\ output = [fn |-> "Manifest", lock |-> Unlocked, manifest |-> NilManifest, builds |-> 0,
                 at |-> [t \in Threads |-> "idle"],
                 m |-> [t \in Threads |-> NilManifest],
                 calls |-> [t \in Threads |-> 0],
                 results |-> [t \in Threads |-> <<>>]]

manifestAt(t, at) == input.fn = "Manifest" /\ output.at[t] = at

\* return manifest, err with the deferred Unlock
returned(t, manifest, err) ==
    [output EXCEPT !.lock = Unlocked, !.at[t] = "idle", !.m[t] = NilManifest,
                   !.results[t] = Append(@, [manifest |-> manifest, err |-> err])]

\* a goroutine calls Manifest()
Manifest_Call(t) ==
    /\ manifestAt(t, "idle")
    /\ output.calls[t] < MaxManifestCalls
    /\ output' = [output EXCEPT !.at[t] = "lock", !.calls[t] = @ + 1]
    /\ UNCHANGED input
    /\ UNCHANGED buildVars

\* line 121: i.lock.Lock()
Manifest_Lock(t) ==
    /\ manifestAt(t, "lock")
    /\ output.lock = Unlocked
    /\ output' = [output EXCEPT !.lock = t, !.at[t] = "check"]
    /\ UNCHANGED input
    /\ UNCHANGED buildVars

\* lines 123-125: the stored manifest is returned
Manifest_Check(t) ==
    /\ manifestAt(t, "check")
    /\ output' = IF hasManifest(output.manifest)
                 THEN returned(t, output.manifest, "")
                 ELSE [output EXCEPT !.at[t] = "config"]
    /\ UNCHANGED input
    /\ UNCHANGED buildVars

\* lines 127-145: the raw config file is read and hashed
Manifest_Config(t) ==
    /\ manifestAt(t, "config")
    /\ \E ok \in BOOLEAN :
        output' = IF ~ok THEN returned(t, NilManifest, "config file")
                  ELSE [output EXCEPT !.at[t] = "layers",
                                      !.m[t] = [id |-> output.builds + 1, Config |-> "sha256:config",
                                                Layers |-> <<>>]]
    /\ UNCHANGED input
    /\ UNCHANGED buildVars

\* lines 147-152: i.Layers()
Manifest_Layers(t) ==
    /\ manifestAt(t, "layers")
    /\ \E ok \in BOOLEAN :
        output' = IF ~ok THEN returned(t, NilManifest, "layers")
                  ELSE [output EXCEPT !.at[t] = "descriptors"]
    /\ UNCHANGED input
    /\ UNCHANGED buildVars

\* lines 153-168: one turn of the loop over the layers
Manifest_Descriptor(t) ==
    /\ manifestAt(t, "descriptors")
    /\ Len(output.m[t].Layers) < Len(input.layers)
    /\ \E ok \in BOOLEAN :
        output' = IF ~ok THEN returned(t, NilManifest, "size or digest of a layer")
                  ELSE [output EXCEPT !.m[t].Layers =
                            Append(@, Descriptor(input.layers[Len(@) + 1]))]
    /\ UNCHANGED input
    /\ UNCHANGED buildVars

\* lines 170-171: the manifest is stored and returned
Manifest_Store(t) ==
    /\ manifestAt(t, "descriptors")
    /\ Len(output.m[t].Layers) = Len(input.layers)
    /\ output' = [returned(t, output.m[t], "") EXCEPT !.manifest = output.m[t],
                                                     !.builds = @ + 1]
    /\ UNCHANGED input
    /\ UNCHANGED buildVars

NextManifest ==
    \E t \in Threads :
        \/ Manifest_Call(t)
        \/ Manifest_Lock(t)
        \/ Manifest_Check(t)
        \/ Manifest_Config(t)
        \/ Manifest_Layers(t)
        \/ Manifest_Descriptor(t)
        \/ Manifest_Store(t)

SpecManifest == InitManifest /\ [][NextManifest]_vars

\* the calls that returned a manifest
successes ==
    { r \in UNION { { output.results[t][k] : k \in 1..Len(output.results[t]) } : t \in Threads } :
        r.err = "" }

\* the goroutines between Lock and Unlock
inManifest == { t \in Threads : output.at[t] \notin {"idle", "lock"} }

\* C40: under any interleaving of concurrent Manifest() calls on one image
\* the manifest is built at most once successfully and every successful call
\* returns that same manifest, whose layer descriptors list (Digest, Size)
\* of the image's layers in layer order; a call that fails stores nothing,
\* so a later call recomputes.
C40_ManifestOnce ==
    output.fn = "Manifest" =>
        /\ output.builds <= 1
        /\ Cardinality(inManifest) <= 1
        /\ inManifest = (IF output.lock = Unlocked THEN {} ELSE {output.lock})
        /\ (output.builds = 0) = (output.manifest = NilManifest)
        /\ (output.builds = 0) = (successes = {})
        /\ \A r \in successes :
              /\ r.manifest = output.manifest
              /\ r.manifest.id = 1
              /\ Len(r.manifest.Layers) = Len(input.layers)
              /\ \A k \in 1..Len(input.layers) :
                    /\ r.manifest.Layers[k].Digest = input.layers[k].Digest
                    /\ r.manifest.Layers[k].Size = input.layers[k].Size

\* one goroutine's call failed, its next call built the manifest of two
\* layers, and the other goroutine got the same manifest twice
C40_Witness ==
    /\ output.fn = "Manifest"
    /\ Len(input.layers) = 2
    /\ Len(output.results[1]) = 2
    /\ output.results[1][1].err # ""
    /\ output.results[1][2].err = ""
    /\ Len(output.results[2]) = 2
    /\ output.results[2][1] = output.results[1][2]
    /\ output.results[2][2] = output.results[1][2]
====
